---- MODULE Spec2Model ----
(***************************************************************************)
(* A model of the relational engine of src/database: the CREATE TABLE      *)
(* parser, the hash Index, the QueryExecutor with its in-memory tables,    *)
(* and the Storage snapshots the executor is rebuilt from.                 *)
(*                                                                         *)
(* Python values are written as their literals: "None", "1", "2", "True",  *)
(* "'a'", "'b'".  Python dicts are sequences of <<key, value>> entries in  *)
(* insertion order, so that iteration order is the dict's.                 *)
(***************************************************************************)
EXTENDS Integers, Sequences, FiniteSets, TLC

\* ------------------------------------------------------------------ bounds

\* Insert statements issued against one table over its lifetime.
MaxInserts == 2

\* Rows one table of the partial-update machine has had over its lifetime.
MaxRows == 3

\* Row-ids given to the Index methods when they are called directly.
MaxRowId == 2

TableNames == {"users"}

\* The Python values statements carry.
Values == {"None", "1", "True", "'a'", "'b'"}

\* ------------------------------------------------------- generic helpers

Range(s) == {s[i] : i \in 1..Len(s)}

\* A set of integers in the order CPython iterates a set of small ints.
RECURSIVE SetToSeq(_)
SetToSeq(S) ==
    IF S = {} THEN <<>>
    ELSE LET x == CHOOSE y \in S : \A z \in S : y <= z
         IN <<x>> \o SetToSeq(S \ {x})

\* str(row_id) and int(row_id_str)
str(n) == ToString(n)

int(s) == CHOOSE n \in 0..(MaxInserts + MaxRows + 2) : ToString(n) = s

\* dict helpers: a dict is a sequence of <<key, value>> in insertion order
DictKeys(d) == {d[i][1] : i \in 1..Len(d)}

DictGet(d, k) == (CHOOSE i \in 1..Len(d) : d[i][1] = k) \* index of key k

DictVal(d, k) == d[DictGet(d, k)][2]

DictPut(d, k, v) ==
    IF k \in DictKeys(d)
    THEN [d EXCEPT ![DictGet(d, k)] = <<k, v>>]
    ELSE Append(d, <<k, v>>)

DictDel(d, k) == SelectSeq(d, LAMBDA e : e[1] # k)

\* ------------------------------------------------------------ types.py

\* Python's == on the modelled values: True == 1 and False == 0 (bool is a
\* subclass of int),
\* which is also how a dict keys them.
PyKey(v) == IF v = "True" THEN "1" ELSE IF v = "False" THEN "0" ELSE v

PyEq(a, b) == PyKey(a) = PyKey(b)

DataTypes == {"INT", "TEXT", "BOOL"}

isinstance_int(v) == v \in {"1", "True", "False"}

isinstance_str(v) == v \in {"'a'", "'b'"}

isinstance_bool(v) == v \in {"True", "False"}

\* Column.validate_value
validate_value(col, value) ==
    IF value = "None" THEN TRUE
    ELSE IF col.dtype = "INT" THEN isinstance_int(value)
    ELSE IF col.dtype = "TEXT" THEN isinstance_str(value)
    ELSE IF col.dtype = "BOOL" THEN isinstance_bool(value)
    ELSE FALSE

\* An Index's _index: a function from the keys present to sets of row ids.
EmptyIndex == [k \in {} |-> {}]

\* (variant) Index.insert that indexes None like any other value
Index_insert_null(idx, value, row_id) ==
    LET k == PyKey(value) IN
    IF k \in DOMAIN idx /\ Cardinality(idx[k]) > 0 THEN <<FALSE, idx>>
    ELSE <<TRUE, [x \in (DOMAIN idx) \cup {k} |->
                     IF x = k
                     THEN (IF k \in DOMAIN idx THEN idx[k] ELSE {}) \cup {row_id}
                     ELSE idx[x]]>>

\* Index.insert: <<ok, _index'>>.  Every Index the executor builds is unique.
Index_insert(idx, value, row_id) ==
    IF value = "None" THEN <<TRUE, idx>>
    ELSE LET k == PyKey(value) IN
         IF k \in DOMAIN idx /\ Cardinality(idx[k]) > 0 THEN <<FALSE, idx>>
         ELSE <<TRUE, [x \in (DOMAIN idx) \cup {k} |->
                          IF x = k
                          THEN (IF k \in DOMAIN idx THEN idx[k] ELSE {}) \cup {row_id}
                          ELSE idx[x]]>>

\* (variant) Index.delete that leaves the entry in place
Index_delete_keep(idx, value, row_id) == idx

\* Index.delete
Index_delete(idx, value, row_id) ==
    LET k == PyKey(value) IN
    IF k \in DOMAIN idx
    THEN IF idx[k] \ {row_id} = {}
         THEN [x \in (DOMAIN idx) \ {k} |-> idx[x]]
         ELSE [idx EXCEPT ![k] = @ \ {row_id}]
    ELSE idx

\* (variant) Index.update that puts the old entry back when the insert fails
Index_update_restoring(idx, old_value, new_value, row_id) ==
    LET r == Index_insert(Index_delete(idx, old_value, row_id), new_value, row_id)
    IN IF r[1] THEN r ELSE <<FALSE, idx>>

\* Index.update: delete, then insert
Index_update(idx, old_value, new_value, row_id) ==
    Index_insert(Index_delete(idx, old_value, row_id), new_value, row_id)

\* Index.search
Index_search(idx, value) ==
    IF PyKey(value) \in DOMAIN idx THEN idx[PyKey(value)] ELSE {}

\* (variant) Index.has_value that never finds a value
Index_has_value_never(idx, value) == FALSE

\* Index.has_value
Index_has_value(idx, value) == PyKey(value) \in DOMAIN idx

\* ------------------------------------------------------------ parser.py

\* str.upper() on the words the modelled texts are written with
upper(w) ==
    CASE w = "int" -> "INT"
      [] w = "text" -> "TEXT"
      [] w = "unique" -> "UNIQUE"
      [] w = "primary" -> "PRIMARY"
      [] w = "key" -> "KEY"
      [] OTHER -> w

\* One column definition, given as col_def.split(): the whitespace-separated
\* words of its text.  parts[0] is the name, parts[1] the type, the rest the
\* constraint tokens, one token per word.
parse_col_def(parts) ==
    [name |-> parts[1],
     type |-> upper(parts[2]),
     constraints |-> [i \in 1..(Len(parts) - 2) |-> upper(parts[i + 2])]]

\* QueryParser._parse_create_table: the parsed 'columns' of the statement
parse_create_table(col_defs) ==
    [i \in 1..Len(col_defs) |-> parse_col_def(col_defs[i])]

\* The text of a WHERE clause, of a value or of an ON condition is a sequence
\* of lexemes: the characters " ", ",", ".", "!" and "=" each on their own,
\* and words and literals that contain none of these characters.

\* "".join(lexemes): the string a lexeme sequence spells
RECURSIVE concat(_)
concat(text) == IF text = <<>> THEN "" ELSE Head(text) \o concat(Tail(text))

\* str.strip()
RECURSIVE strip(_)
strip(text) ==
    IF text # <<>> /\ Head(text) = " " THEN strip(Tail(text))
    ELSE IF text # <<>> /\ text[Len(text)] = " "
    THEN strip(SubSeq(text, 1, Len(text) - 1))
    ELSE text

\* QueryParser._split_by_commas from the i-th lexeme on (no parentheses in
\* the modelled texts)
RECURSIVE split_by_commas_from(_, _, _, _)
split_by_commas_from(s, i, current, result) ==
    IF i > Len(s)
    THEN IF current # <<>> THEN Append(result, strip(current)) ELSE result
    ELSE IF s[i] = ","
    THEN split_by_commas_from(s, i + 1, <<>>, Append(result, strip(current)))
    ELSE split_by_commas_from(s, i + 1, Append(current, s[i]), result)

split_by_commas(s) == split_by_commas_from(s, 1, <<>>, <<>>)

\* The literals of the modelled texts by the branch of _parse_value they take
QuotedLiterals == {"'a'", "'b'"}

DigitLiterals == {"1"}

FloatLiterals == {"1.5"}

\* QueryParser._parse_value: the Python value, written as its literal
parse_value(text) ==
    LET value_str == concat(strip(text)) IN
    IF upper(value_str) = "NULL" THEN "None"
    ELSE IF upper(value_str) = "TRUE" THEN "True"
    ELSE IF upper(value_str) = "FALSE" THEN "False"
    ELSE IF value_str \in QuotedLiterals THEN value_str
    ELSE IF value_str \in DigitLiterals THEN value_str
    ELSE IF value_str \in FloatLiterals THEN value_str
    ELSE "'" \o value_str \o "'"

\* cond.split(sep, 1) for a one-lexeme separator: <<left, right>>
split_first(cond, sep) ==
    LET i == CHOOSE j \in 1..Len(cond) :
                 cond[j] = sep /\ \A l \in 1..(j - 1) : cond[l] # sep
    IN <<SubSeq(cond, 1, i - 1), SubSeq(cond, i + 1, Len(cond))>>

\* The conditions _parse_where_clause appends for one term: '=' in cond is
\* tested first, and '!=' only if it fails.
parse_condition(cond) ==
    IF "=" \in Range(cond)
    THEN LET lr == split_first(cond, "=")
         IN << [column |-> concat(strip(lr[1])), operator |-> "=",
                value |-> parse_value(lr[2])] >>
    ELSE IF \E i \in 1..(Len(cond) - 1) : cond[i] = "!" /\ cond[i + 1] = "="
    THEN LET i == CHOOSE j \in 1..(Len(cond) - 1) :
                     /\ cond[j] = "!" /\ cond[j + 1] = "="
                     /\ \A l \in 1..(j - 1) : ~(cond[l] = "!" /\ cond[l + 1] = "=")
         IN << [column |-> concat(strip(SubSeq(cond, 1, i - 1))), operator |-> "!=",
                value |-> parse_value(SubSeq(cond, i + 2, Len(cond)))] >>
    ELSE <<>>

RECURSIVE parse_conditions(_, _)
parse_conditions(terms, i) ==
    IF i > Len(terms) THEN <<>>
    ELSE parse_condition(terms[i]) \o parse_conditions(terms, i + 1)

\* QueryParser._parse_where_clause (and the "if where_clause else None" of its
\* callers: <<>> stands for no WHERE, which the executor treats as no condition)
parse_where_clause(where_str) ==
    IF where_str = <<>> THEN <<>>
    ELSE parse_conditions(split_by_commas(where_str), 1)

\* s.split(sep) of a text holding the one-lexeme separator at most once
split(text, sep) ==
    IF sep \in Range(text)
    THEN LET lr == split_first(text, sep) IN <<lr[1], lr[2]>>
    ELSE <<text>>

\* The JOIN part of _parse_select for "INNER JOIN join_table ON
\* join_condition", both operands written table.column: the table names
\* written in the condition are dropped.
parse_join(join_table, join_condition) ==
    LET join_parts == split(join_condition, "=")
        left == split(strip(join_parts[1]), ".")
        right == split(strip(join_parts[2]), ".")
    IN [table |-> join_table,
        left_column |-> concat(left[2]),
        right_column |-> concat(right[2])]

\* s.split(sep) for a one-lexeme separator: all the parts
RECURSIVE split_every(_, _)
split_every(text, sep) ==
    IF sep \notin Range(text) THEN <<text>>
    ELSE LET lr == split_first(text, sep)
         IN <<lr[1]>> \o split_every(lr[2], sep)

\* The exception _parse_create_table raises on these column definitions, or
\* "ok": parts[1] of a one-word definition is an IndexError
parse_create_table_error(col_defs) ==
    IF \E i \in 1..Len(col_defs) : Len(col_defs[i]) < 2 THEN "IndexError"
    ELSE "ok"

\* The exception the JOIN part of _parse_select raises, or "ok": a condition
\* without exactly one '=' is a SyntaxError; unpacking operand.split('.')
\* into two names is a ValueError unless there are exactly two parts
parse_join_error(join_condition) ==
    LET join_parts == split_every(join_condition, "=") IN
    IF Len(join_parts) # 2 THEN "SyntaxError"
    ELSE IF \/ Len(split_every(strip(join_parts[1]), ".")) # 2
            \/ Len(split_every(strip(join_parts[2]), ".")) # 2
    THEN "ValueError"
    ELSE "ok"

\* The exception the SET loop of _parse_update raises, or "ok": unpacking
\* assign.split('=', 1) into two parts is a ValueError for a term without '='
parse_set_error(set_clause) ==
    LET terms == split_by_commas(set_clause) IN
    IF \E i \in 1..Len(terms) : "=" \notin Range(terms[i]) THEN "ValueError"
    ELSE "ok"

\* assignments[col.strip()] = parse_value(value) for each term from the i-th
\* on, as the items of the dict in insertion order
RECURSIVE parse_set_from(_, _, _)
parse_set_from(terms, i, assignments) ==
    IF i > Len(terms) THEN assignments
    ELSE LET lr == split_first(terms[i], "=")
         IN parse_set_from(terms, i + 1,
                           DictPut(assignments, concat(strip(lr[1])),
                                   parse_value(lr[2])))

\* The 'set' of _parse_update
parse_set(set_clause) == parse_set_from(split_by_commas(set_clause), 1, <<>>)

\* The statement keywords QueryParser.parse dispatches on
Keywords == {"CREATE TABLE", "INSERT INTO", "SELECT", "UPDATE", "DELETE FROM"}

\* The exception parse raises for a text starting with this keyword, or "ok"
parse_keyword_error(keyword) ==
    IF keyword \notin Keywords THEN "SyntaxError" ELSE "ok"

\* ---------------------------------------------------------- executor.py

\* Column(...) as _execute_create_table and _load_table build it from a
\* schema record: 'PRIMARY KEY' in constraints tests list membership.
MakeColumn(col_def) ==
    [name |-> col_def.name,
     dtype |-> col_def.type,
     is_primary |-> "PRIMARY KEY" \in Range(col_def.constraints),
     is_unique |-> "UNIQUE" \in Range(col_def.constraints)
                   \/ "PRIMARY KEY" \in Range(col_def.constraints)]

\* indexes = {} ; for col in columns: if primary or unique: indexes[name] = Index
RECURSIVE MakeIndexes(_, _)
MakeIndexes(columns, i) ==
    IF i = 0 THEN <<>>
    ELSE LET rest == MakeIndexes(columns, i - 1)
             col == columns[i]
         IN IF col.is_primary \/ col.is_unique
            THEN DictPut(rest, col.name, EmptyIndex)
            ELSE rest

SchemaNames(table) == {table.schema[i].name : i \in 1..Len(table.schema)}

\* next((col for col in columns if col.name == col_name), None)
HasColumn(table, col_name) == col_name \in SchemaNames(table)

FindColumn(table, col_name) ==
    table.schema[CHOOSE i \in 1..Len(table.schema) :
                    /\ table.schema[i].name = col_name
                    /\ \A j \in 1..(i - 1) : table.schema[j].name # col_name]

\* row.get(col_name)
RowGet(row, col_name) == IF col_name \in DOMAIN row THEN row[col_name] ELSE "None"

\* QueryExecutor._check_constraints: "ok" or the kind of the error raised,
\* columns examined in schema order from column i on.
RECURSIVE check_constraints_from(_, _, _, _)
check_constraints_from(table, row, exclude, i) ==
    IF i > Len(table.schema) THEN "ok"
    ELSE LET col == table.schema[i]
             value == RowGet(row, col.name)
         IN IF col.is_primary /\ value = "None" THEN "null_pk"
            ELSE IF /\ (col.is_primary \/ col.is_unique)
                    /\ value # "None"
                    /\ Index_has_value(DictVal(table.indexes, col.name), value)
                    /\ Index_search(DictVal(table.indexes, col.name), value)
                          \ exclude # {}
                 THEN "duplicate"
                 ELSE check_constraints_from(table, row, exclude, i + 1)

\* (variant) a constraint check that tests only primary-key nullity
check_constraints_pk_only(table, row, exclude) ==
    IF \E i \in 1..Len(table.schema) :
          table.schema[i].is_primary /\ RowGet(row, table.schema[i].name) = "None"
    THEN "null_pk" ELSE "ok"

\* (variant) a constraint check that excludes no row-id
check_constraints_no_exclude(table, row, exclude) ==
    check_constraints_from(table, row, {}, 1)

check_constraints(table, row, exclude) ==
    check_constraints_from(table, row, exclude, 1)

\* A statement's result: status "OK" or "error" (a raised exception, with its
\* kind); row_id for an Insert, count for an Update or Delete (0 otherwise).
Result(op, status, kind, row_id, count) ==
    [op |-> op, status |-> status, kind |-> kind, row_id |-> row_id, count |-> count]

\* The first supplied (column, value) pair _execute_insert / _execute_update
\* rejects, as the kind of its error, or "ok" (pairs is a sequence of
\* <<col_name, value>>).
RECURSIVE validate_pairs(_, _, _)
validate_pairs(table, pairs, i) ==
    IF i > Len(pairs) THEN "ok"
    ELSE IF ~HasColumn(table, pairs[i][1]) THEN "unknown_column"
    ELSE IF ~validate_value(FindColumn(table, pairs[i][1]), pairs[i][2]) THEN "type"
    ELSE validate_pairs(table, pairs, i + 1)

\* (variant) every supplied column gets the first supplied value
assign_pairs_first_value(row, pairs, i) ==
    [c \in (DOMAIN row) \cup {pairs[j][1] : j \in i..Len(pairs)} |->
        IF \E j \in i..Len(pairs) : pairs[j][1] = c THEN pairs[i][2] ELSE row[c]]

\* row[col_name] = value for each pair in order (a later pair overwrites)
RECURSIVE assign_pairs(_, _, _)
assign_pairs(row, pairs, i) ==
    IF i > Len(pairs) THEN row
    ELSE assign_pairs([c \in (DOMAIN row) \cup {pairs[i][1]} |->
                          IF c = pairs[i][1] THEN pairs[i][2] ELSE row[c]],
                      pairs, i + 1)

\* (variant) missing columns are left out of the row
fill_missing_skip(table, row_data) == row_data

\* for col in columns: if col.name not in row_data: row_data[col.name] = None
fill_missing(table, row_data) ==
    [c \in (DOMAIN row_data) \cup SchemaNames(table) |->
        IF c \in DOMAIN row_data THEN row_data[c] ELSE "None"]

\* _execute_insert's index loop from the i-th index on: <<ok, indexes'>>; it
\* stops at the first Index.insert that reports a duplicate.
RECURSIVE insert_indexes(_, _, _, _)
insert_indexes(indexes, row_data, row_id, i) ==
    IF i > Len(indexes) THEN <<TRUE, indexes>>
    ELSE LET r == Index_insert(indexes[i][2], RowGet(row_data, indexes[i][1]), row_id)
         IN IF ~r[1] THEN <<FALSE, indexes>>
            ELSE insert_indexes([indexes EXCEPT ![i] = <<indexes[i][1], r[2]>>],
                                row_data, row_id, i + 1)

\* (variant) the row id taken from the number of stored rows
assign_row_id_by_count(table) == Len(table.data) + 1

\* row_id = table['next_row_id']
assign_row_id(table) == table.next_row_id

\* QueryExecutor._execute_insert on an existing table: the table afterwards,
\* the result, and whether the snapshot was saved.
execute_insert(table, columns, values) ==
    LET col_names == IF columns # <<>> THEN columns
                     ELSE [i \in 1..Len(table.schema) |-> table.schema[i].name]
        fail(kind) == [table |-> table, saved |-> FALSE,
                       res |-> Result("insert", "error", kind, 0, 0)]
    IN
    IF Len(col_names) # Len(values) THEN fail("arity")
    ELSE
    LET pairs == [i \in 1..Len(values) |-> <<col_names[i], values[i]>>]
        valid == validate_pairs(table, pairs, 1)
    IN
    IF valid # "ok" THEN fail(valid)
    ELSE
    LET row_data == fill_missing(table, assign_pairs(<<>>, pairs, 1))
        chk == check_constraints(table, row_data, {})
    IN
    IF chk # "ok" THEN fail(chk)
    ELSE
    LET row_id == assign_row_id(table)
        rows1 == DictPut(table.data, str(row_id), row_data)
        ix == insert_indexes(table.indexes, row_data, row_id, 1)
    IN
    IF ~ix[1]
    THEN \* rollback: the row and the counter, not the indexes already updated
         [table |-> [table EXCEPT !.data = DictDel(rows1, str(row_id)),
                                  !.indexes = ix[2]],
          saved |-> FALSE,
          res |-> Result("insert", "error", "unique_violation", 0, 0)]
    ELSE [table |-> [table EXCEPT !.data = rows1, !.indexes = ix[2],
                                  !.next_row_id = table.next_row_id + 1],
          saved |-> TRUE,
          res |-> Result("insert", "OK", "", row_id, 0)]

\* One condition of the fallback scan against a row
condition_holds(row, condition) ==
    IF condition.operator = "="
    THEN PyEq(RowGet(row, condition.column), condition.value)
    ELSE IF condition.operator = "!="
    THEN ~PyEq(RowGet(row, condition.column), condition.value)
    ELSE TRUE

\* A full scan that stops at the first condition of the list
full_scan_first_condition(rows, conditions) ==
    SelectSeq(rows, LAMBDA e : condition_holds(e[2], conditions[1]))

\* The fallback of _apply_where_clause: rows matching every condition
full_scan(rows, conditions) ==
    SelectSeq(rows, LAMBDA e :
        \A i \in 1..Len(conditions) : condition_holds(e[2], conditions[i]))

\* The rows an index lookup of one condition yields
RECURSIVE rows_of_ids(_, _, _)
rows_of_ids(rows, ids, i) ==
    IF i > Len(ids) THEN <<>>
    ELSE LET rest == rows_of_ids(rows, ids, i + 1)
         IN IF str(ids[i]) \in DictKeys(rows)
            THEN <<(<<str(ids[i]), DictVal(rows, str(ids[i]))>>)>> \o rest
            ELSE rest

index_lookup(table, rows, condition) ==
    rows_of_ids(rows,
                SetToSeq(Index_search(DictVal(table.indexes, condition.column),
                                      condition.value)), 1)

\* QueryExecutor._apply_where_clause
apply_where_clause(table, rows, conditions) ==
    IF conditions = <<>> THEN rows
    ELSE LET eligible == {i \in 1..Len(conditions) :
                            /\ conditions[i].operator = "="
                            /\ conditions[i].column \in DictKeys(table.indexes)}
         IN IF eligible # {}
            THEN index_lookup(table, rows,
                              conditions[CHOOSE i \in eligible :
                                            \A j \in eligible : i <= j])
            ELSE full_scan(rows, conditions)

\* _execute_update's index loop for one row from the i-th index on:
\* <<ok, indexes'>>.  A failing Index.update has already deleted the old entry.
RECURSIVE update_indexes(_, _, _, _, _)
update_indexes(indexes, row, updated_row, row_id, i) ==
    IF i > Len(indexes) THEN <<TRUE, indexes>>
    ELSE LET old_value == RowGet(row, indexes[i][1])
             new_value == RowGet(updated_row, indexes[i][1])
         IN IF PyEq(old_value, new_value)
            THEN update_indexes(indexes, row, updated_row, row_id, i + 1)
            ELSE LET r == Index_update(indexes[i][2], old_value, new_value, row_id)
                     ixs == [indexes EXCEPT ![i] = <<indexes[i][1], r[2]>>]
                 IN IF ~r[1] THEN <<FALSE, ixs>>
                    ELSE update_indexes(ixs, row, updated_row, row_id, i + 1)

\* The body of _execute_update's loop for the row stored under row_id_str:
\* the kind of the error it raises or "ok", and the table afterwards.
update_row(table, row_id_str, set) ==
    LET row_id == int(row_id_str)
        row == DictVal(table.data, row_id_str)
        valid == validate_pairs(table, set, 1)
        updated_row == assign_pairs(row, set, 1)
    IN
    IF valid # "ok" THEN [kind |-> valid, table |-> table]
    ELSE
    LET chk == check_constraints(table, updated_row, {row_id}) IN
    IF chk # "ok" THEN [kind |-> chk, table |-> table]
    ELSE
    LET ix == update_indexes(table.indexes, row, updated_row, row_id, 1) IN
    IF ~ix[1]
    THEN [kind |-> "unique_violation", table |-> [table EXCEPT !.indexes = ix[2]]]
    ELSE [kind |-> "ok",
          table |-> [table EXCEPT !.indexes = ix[2],
                                  !.data = DictPut(table.data, row_id_str, updated_row)]]

\* (variant) a loop that restores the table when a row fails
RECURSIVE update_loop_rollback(_, _, _, _, _)
update_loop_rollback(table, targets, set, i, updated_count) ==
    IF i > Len(targets)
    THEN [kind |-> "ok", table |-> table, count |-> updated_count]
    ELSE LET r == update_row(table, targets[i][1], set)
             rest == update_loop_rollback(r.table, targets, set, i + 1,
                                          updated_count + 1)
         IN IF r.kind # "ok"
            THEN [kind |-> r.kind, table |-> table, count |-> updated_count]
            ELSE IF rest.kind # "ok"
            THEN [kind |-> rest.kind, table |-> table, count |-> updated_count]
            ELSE rest

\* (variant) a loop that stops after its first row
update_loop_first_only(table, targets, set, i, updated_count) ==
    IF targets = <<>>
    THEN [kind |-> "ok", table |-> table, count |-> 0]
    ELSE LET r == update_row(table, targets[1][1], set)
         IN [kind |-> r.kind, table |-> r.table,
             count |-> IF r.kind = "ok" THEN 1 ELSE 0]

\* for row_id_str in filtered_rows: ... from the i-th target on.  An error
\* leaves the rows and indexes changed so far as they are.
RECURSIVE update_loop(_, _, _, _, _)
update_loop(table, targets, set, i, updated_count) ==
    IF i > Len(targets)
    THEN [kind |-> "ok", table |-> table, count |-> updated_count]
    ELSE LET r == update_row(table, targets[i][1], set)
         IN IF r.kind # "ok"
            THEN [kind |-> r.kind, table |-> r.table, count |-> updated_count]
            ELSE update_loop(r.table, targets, set, i + 1, updated_count + 1)

\* (variant) an update that saves the snapshot even when a row fails
execute_update_save_partial(table, set, where) ==
    LET filtered_rows == apply_where_clause(table, table.data, where)
        r == update_loop(table, filtered_rows, set, 1, 0)
    IN IF r.kind # "ok"
       THEN [table |-> r.table, saved |-> r.count > 0,
             res |-> Result("update", "error", r.kind, 0, 0)]
       ELSE [table |-> r.table, saved |-> r.count > 0,
             res |-> Result("update", "OK", "", 0, r.count)]

\* QueryExecutor._execute_update on an existing table
execute_update(table, set, where) ==
    LET filtered_rows == apply_where_clause(table, table.data, where)
        r == update_loop(table, filtered_rows, set, 1, 0)
    IN IF r.kind # "ok"
       THEN [table |-> r.table, saved |-> FALSE,
             res |-> Result("update", "error", r.kind, 0, 0)]
       ELSE [table |-> r.table, saved |-> r.count > 0,
             res |-> Result("update", "OK", "", 0, r.count)]

\* (variant) a delete that leaves the indexes as they are
delete_indexes_keep(indexes, row, row_id) == indexes

\* Remove from indexes: index.delete(row.get(col_name), row_id) for every index
delete_indexes(indexes, row, row_id) ==
    [i \in 1..Len(indexes) |->
        <<indexes[i][1],
          Index_delete(indexes[i][2], RowGet(row, indexes[i][1]), row_id)>>]

RECURSIVE delete_loop(_, _, _)
delete_loop(table, targets, i) ==
    IF i > Len(targets) THEN table
    ELSE LET row_id_str == targets[i][1]
             row == DictVal(table.data, row_id_str)
         IN delete_loop([table EXCEPT
                            !.indexes = delete_indexes(table.indexes, row, int(row_id_str)),
                            !.data = DictDel(table.data, row_id_str)],
                        targets, i + 1)

\* QueryExecutor._execute_delete on an existing table
execute_delete(table, where) ==
    LET filtered_rows == apply_where_clause(table, table.data, where)
    IN [table |-> delete_loop(table, filtered_rows, 1),
        saved |-> Len(filtered_rows) > 0,
        res |-> Result("delete", "OK", "", 0, Len(filtered_rows))]

\* {f"{table_name}.{k}": v for k, v in row.items()}
qualified(table_name, row) ==
    [key \in {table_name \o "." \o k : k \in DOMAIN row} |->
        row[CHOOSE k \in DOMAIN row : table_name \o "." \o k = key]]

\* merged_row = qualified left row; merged_row.update(qualified right row)
merge_rows(left_table_name, left_row, right_table_name, right_row) ==
    LET l == qualified(left_table_name, left_row)
        r == qualified(right_table_name, right_row)
    IN [key \in (DOMAIN l) \cup (DOMAIN r) |->
           IF key \in DOMAIN r THEN r[key] ELSE l[key]]

\* (variant) matches whose index path returns every indexed row, whatever
\* the left value
join_matches_any_key(right_table, right_col, left_value) ==
    IF right_col \in DictKeys(right_table.indexes)
    THEN SelectSeq(right_table.data,
                   LAMBDA e : RowGet(e[2], right_col) # "None")
    ELSE SelectSeq(right_table.data,
                   LAMBDA e : PyEq(RowGet(e[2], right_col), left_value))

\* The right rows _execute_join pairs with a non-null left value, in the
\* order it meets them: through the right column's Index when it has one
\* (the row must exist and be a non-empty dict), by a scan otherwise
join_matches(right_table, right_col, left_value) ==
    IF right_col \in DictKeys(right_table.indexes)
    THEN SelectSeq(rows_of_ids(right_table.data,
                               SetToSeq(Index_search(
                                   DictVal(right_table.indexes, right_col),
                                   left_value)), 1),
                   LAMBDA e : DOMAIN e[2] # {})
    ELSE SelectSeq(right_table.data,
                   LAMBDA e : PyEq(RowGet(e[2], right_col), left_value))

\* _execute_join's loop over the left rows from the i-th on
RECURSIVE join_loop(_, _, _, _, _, _)
join_loop(left_table_name, left_rows, right_table_name, right_table, join_info, i) ==
    IF i > Len(left_rows) THEN <<>>
    ELSE LET left_row == left_rows[i][2]
             left_value == RowGet(left_row, join_info.left_column)
             rest == join_loop(left_table_name, left_rows, right_table_name,
                               right_table, join_info, i + 1)
             m == join_matches(right_table, join_info.right_column, left_value)
         IN IF left_value = "None" THEN rest
            ELSE [j \in 1..Len(m) |->
                     merge_rows(left_table_name, left_row,
                                right_table_name, m[j][2])] \o rest

\* (variant) a join that yields no rows when the right table is unknown
execute_join_missing_empty(tbls, left_table_name, left_rows, join_info) ==
    [kind |-> "ok", rows |-> <<>>]

\* QueryExecutor._execute_join: "ok" and the merged rows, or the error's kind
execute_join(tbls, left_table_name, left_rows, join_info) ==
    IF join_info.table \notin DOMAIN tbls
    THEN [kind |-> "no_table", rows |-> <<>>]
    ELSE [kind |-> "ok",
          rows |-> join_loop(left_table_name, left_rows, join_info.table,
                             tbls[join_info.table], join_info, 1)]

\* query['join'] of a SELECT without INNER JOIN
NoJoin == <<>>

\* QueryExecutor._execute_select on an existing table: the result, the
\* 'columns' and the 'rows' it returns (none when it raises)
execute_select(tbls, table_name, columns, where, join) ==
    LET table == tbls[table_name]
        selected_columns ==
            IF columns = <<"*">>
            THEN [i \in 1..Len(table.schema) |-> table.schema[i].name]
            ELSE columns
        filtered_rows == apply_where_clause(table, table.data, where)
        fail(kind) == [res |-> Result("select", "error", kind, 0, 0),
                       columns |-> <<>>, rows |-> <<>>]
        ok(rows) == [res |-> Result("select", "OK", "", 0, 0),
                     columns |-> selected_columns, rows |-> rows]
    IN
    IF join # NoJoin
    THEN LET j == execute_join(tbls, table_name, filtered_rows, join)
         IN IF j.kind # "ok" THEN fail(j.kind) ELSE ok(j.rows)
    ELSE IF \E i \in 1..Len(filtered_rows), c \in 1..Len(selected_columns) :
               selected_columns[c] \notin DOMAIN filtered_rows[i][2]
    THEN fail("unknown_column")
    ELSE ok([i \in 1..Len(filtered_rows) |->
                [c \in Range(selected_columns) |-> filtered_rows[i][2][c]]])

\* (variant) a new table whose counter starts at the number of its columns
new_table_counter_from_columns(columns_q) ==
    [schema |-> [i \in 1..Len(columns_q) |-> MakeColumn(columns_q[i])],
     data |-> <<>>,
     indexes |-> MakeIndexes([i \in 1..Len(columns_q) |-> MakeColumn(columns_q[i])],
                             Len(columns_q)),
     next_row_id |-> Len(columns_q)]

\* QueryExecutor._execute_create_table for a new name: the table registered
new_table(columns_q) ==
    LET columns == [i \in 1..Len(columns_q) |-> MakeColumn(columns_q[i])]
    IN [schema |-> columns,
        data |-> <<>>,
        indexes |-> MakeIndexes(columns, Len(columns)),
        next_row_id |-> 1]

\* (variant) a load that does not replay rows into the indexes
load_row_skip(indexes, columns, row, row_id, c) == indexes

\* _load_table's replay of one row into the indexes (a duplicate reported by
\* Index.insert is ignored), columns in schema order from column c on
RECURSIVE load_row(_, _, _, _, _)
load_row(indexes, columns, row, row_id, c) ==
    IF c > Len(columns) THEN indexes
    ELSE IF columns[c].name \in DictKeys(indexes)
    THEN load_row(DictPut(indexes, columns[c].name,
                          Index_insert(DictVal(indexes, columns[c].name),
                                       RowGet(row, columns[c].name), row_id)[2]),
                  columns, row, row_id, c + 1)
    ELSE load_row(indexes, columns, row, row_id, c + 1)

RECURSIVE load_rows(_, _, _, _)
load_rows(table, rows, i, next_row_id) ==
    IF i > Len(rows) THEN [table EXCEPT !.next_row_id = next_row_id]
    ELSE LET row_id == int(rows[i][1])
         IN load_rows([table EXCEPT !.indexes =
                          load_row(table.indexes, table.schema, rows[i][2], row_id, 1)],
                      rows, i + 1,
                      IF row_id + 1 > next_row_id THEN row_id + 1 ELSE next_row_id)

\* QueryExecutor._load_table: the table built from a schema file and a snapshot
load_table(schema_data, rows) ==
    LET columns == [i \in 1..Len(schema_data) |-> MakeColumn(schema_data[i])]
    IN load_rows([schema |-> columns,
                  data |-> rows,
                  indexes |-> MakeIndexes(columns, Len(columns)),
                  next_row_id |-> 1],
                 rows, 1, 1)

\* DatabaseEngine.get_table_info: the 'schema' it reports
get_table_info(table) ==
    [i \in 1..Len(table.schema) |->
        [name |-> table.schema[i].name,
         type |-> table.schema[i].dtype,
         is_primary |-> table.schema[i].is_primary,
         is_unique |-> table.schema[i].is_unique]]

\* ------------------------------------------------------- statement inputs

\* CREATE TABLE column lists, each column definition as its words
CreateTexts ==
    { << <<"id", "INT", "PRIMARY", "KEY">>, <<"email", "text", "unique">> >>,
      << <<"id", "INT", "UNIQUE">>, <<"email", "TEXT", "UNIQUE">> >>,
      << <<"id", "VARCHAR">> >> }

\* INSERT statements as <<column list, value list>> (<<>>: list omitted)
InsertStmts ==
    {<< <<>>, <<v, w>> >> : v \in {"None", "1", "True"}, w \in {"None", "'a'", "'b'"}}
        \cup {<< <<>>, <<"'a'", "'a'">> >>, << <<>>, <<"1", "True">> >>}
        \cup {<< <<>>, <<"1.5", "'a'">> >>}
        \cup {<< <<>>, <<"1">> >>}
        \cup {<< <<"email">>, <<v>> >> : v \in {"None", "'a'", "1"}}
        \cup {<< <<"email", "id">>, <<v, w>> >> : v \in {"'a'", "'b'"}, w \in {"None", "1"}}
        \cup {<< <<"nope", "id">>, <<"1", "1">> >>}

\* UPDATE SET clauses, as the (column, value) items of query['set']
SetClauses ==
    {<< <<c, v>> >> : c \in {"id", "email"}, v \in Values}
        \cup {<< <<"nope", "1">> >>}
        \cup {<< <<"email", v>>, <<"id", w>> >> : v \in {"'a'", "'b'"}, w \in {"1", "True"}}

\* WHERE clauses, as parsed condition lists (<<>>: no WHERE)
Condition(c, op, v) == [column |-> c, operator |-> op, value |-> v]

WhereClauses ==
    { <<>>,
      <<Condition("id", "=", "1")>>,
      <<Condition("email", "=", "'a'")>>,
      <<Condition("email", "=", "None")>> }

\* ------------------------------------------------------------------ state

VARIABLES
    tables,        \* QueryExecutor.tables: table name -> table
    schema_files,  \* Storage: table name -> persisted schema descriptor
    data_files,    \* Storage: table name -> persisted row snapshot
    res,           \* the result of the last statement (or of the reload)
    issued,        \* per table: row ids returned by Inserts of this Executor
    lifetime,      \* per table: row ids returned by Inserts since its creation
    out            \* the 'columns' and 'rows' the last statement returned

vars == <<tables, schema_files, data_files, res, issued, lifetime, out>>

\* What a statement other than a successful SELECT returns as rows
NoOutput == <<>>

Extend(f, k, v) == [x \in (DOMAIN f) \cup {k} |-> IF x = k THEN v ELSE f[x]]

Init ==
    /\ tables = <<>>
    /\ schema_files = <<>>
    /\ data_files = <<>>
    /\ res = Result("init", "OK", "", 0, 0)
    /\ issued = [t \in TableNames |-> <<>>]
    /\ lifetime = [t \in TableNames |-> <<>>]
    /\ out = NoOutput

\* A statement on a table the executor does not know
NoTable(op) ==
    /\ res' = Result(op, "error", "no_table", 0, 0)
    /\ out' = NoOutput
    /\ UNCHANGED <<tables, schema_files, data_files, issued, lifetime>>

\* QueryExecutor._execute_create_table, from the statement's text
CreateTable(t, text) ==
    LET columns_q == parse_create_table(text) IN
    /\ out' = NoOutput
    /\ IF t \in DOMAIN tables
       THEN /\ res' = Result("create", "error", "table_exists", 0, 0)
            /\ UNCHANGED <<tables, schema_files, data_files, issued, lifetime>>
       ELSE IF \E i \in 1..Len(columns_q) : columns_q[i].type \notin DataTypes
       THEN /\ res' = Result("create", "error", "bad_type", 0, 0)
            /\ UNCHANGED <<tables, schema_files, data_files, issued, lifetime>>
       ELSE /\ tables' = Extend(tables, t, new_table(columns_q))
            /\ schema_files' = Extend(schema_files, t, columns_q)
            /\ data_files' = Extend(data_files, t, <<>>)
            /\ res' = Result("create", "OK", "", 0, 0)
            /\ UNCHANGED <<issued, lifetime>>

\* The table and snapshot after a statement's outcome r on table t
Commit(t, r) ==
    /\ tables' = [tables EXCEPT ![t] = r.table]
    /\ data_files' = IF r.saved THEN Extend(data_files, t, r.table.data)
                     ELSE data_files
    /\ res' = r.res
    /\ out' = NoOutput
    /\ UNCHANGED schema_files

\* QueryExecutor._execute_insert on table name t
InsertInto(t, columns, values) ==
    IF t \notin DOMAIN tables THEN NoTable("insert")
    ELSE LET r == execute_insert(tables[t], columns, values) IN
         /\ Commit(t, r)
         /\ issued' = IF r.res.status = "OK"
                      THEN [issued EXCEPT ![t] = Append(@, r.res.row_id)]
                      ELSE issued
         /\ lifetime' = IF r.res.status = "OK"
                        THEN [lifetime EXCEPT ![t] = Append(@, r.res.row_id)]
                        ELSE lifetime

\* An INSERT while the table has had fewer than MaxInserts rows
Insert(t, columns, values) ==
    /\ Len(lifetime[t]) < MaxInserts
    /\ InsertInto(t, columns, values)

Update(t, set, where) ==
    IF t \notin DOMAIN tables THEN NoTable("update")
    ELSE /\ Commit(t, execute_update(tables[t], set, where))
         /\ UNCHANGED <<issued, lifetime>>

Delete(t, where) ==
    IF t \notin DOMAIN tables THEN NoTable("delete")
    ELSE /\ Commit(t, execute_delete(tables[t], where))
         /\ UNCHANGED <<issued, lifetime>>

\* QueryExecutor.__init__ / _load_existing_tables on a new Executor over the
\* same Storage
LoadExistingTables ==
    [t \in {x \in DOMAIN schema_files : schema_files[x] # <<>>} |->
        load_table(schema_files[t],
                   IF t \in DOMAIN data_files THEN data_files[t] ELSE <<>>)]

Reload ==
    /\ tables' = LoadExistingTables
    /\ res' = Result("reload", "OK", "", 0, 0)
    /\ issued' = [t \in DOMAIN issued |-> <<>>]
    /\ out' = NoOutput
    /\ UNCHANGED <<schema_files, data_files, lifetime>>

Next ==
    \/ \E t \in TableNames, text \in CreateTexts : CreateTable(t, text)
    \/ \E t \in TableNames, q \in InsertStmts : Insert(t, q[1], q[2])
    \/ \E t \in TableNames, set \in SetClauses, where \in WhereClauses :
          Update(t, set, where)
    \/ \E t \in TableNames, where \in WhereClauses : Delete(t, where)
    \/ Reload

Spec == Init /\ [][Next]_vars

\* ------------------------------------------------------------- queries

\* The table names of the query machine: a SELECT may join two of them
QueryTables == {"users", "orders"}

\* Its CREATE TABLE text: id INT, email text unique
QueryCreateTexts ==
    { << <<"id", "INT">>, <<"email", "text", "unique">> >> }

\* Its INSERT statements
QueryInsertStmts ==
    {<< <<>>, <<v, w>> >> : v \in {"None", "1", "True"}, w \in {"None", "'a'"}}

\* SELECT column lists, as columns_str.split(',') stripped
Projections == { <<"*">>, <<"email">>, <<"nope">> }

\* WHERE clause texts of a SELECT (<<>>: no WHERE)
WhereTexts ==
    { <<>>,
      <<"id", " ", "=", " ", "1">>,
      <<"id", " ", "!", "=", " ", "1">>,
      <<"email", " ", "=", " ", "'a'">>,
      <<"nope", " ", "=", " ", "1">>,
      <<"id", " ", "=", " ", "1", ",", " ", "email", " ", "=", " ", "NULL">> }

\* The text "L.a = R.b" of an ON condition
OnText(L, a, R, b) == <<L, ".", a, " ", "=", " ", R, ".", b>>

\* Columns joined on, and the column lists and WHERE texts of a SELECT with
\* INNER JOIN
JoinColumns == {"id", "email"}

JoinProjections == { <<"*">>, <<"nope">> }

JoinWhereTexts == { <<>>, <<"email", " ", "=", " ", "'a'">> }

QueryInit ==
    /\ tables = <<>>
    /\ schema_files = <<>>
    /\ data_files = <<>>
    /\ res = Result("init", "OK", "", 0, 0)
    /\ issued = [t \in QueryTables |-> <<>>]
    /\ lifetime = [t \in QueryTables |-> <<>>]
    /\ out = NoOutput

\* The number of Inserts that have succeeded on the given tables
RECURSIVE Inserted(_)
Inserted(T) ==
    IF T = {} THEN 0
    ELSE LET t == CHOOSE x \in T : TRUE
         IN Len(lifetime[t]) + Inserted(T \ {t})

\* An Insert of the query machine
QueryInsert(t, columns, values) ==
    /\ Inserted(QueryTables) < MaxInserts
    /\ Insert(t, columns, values)

\* (variant) a SELECT that saves the table's snapshot when it succeeds
Select_saving(t, columns, where_str, join) ==
    /\ IF t \notin DOMAIN tables
       THEN /\ res' = Result("select", "error", "no_table", 0, 0)
            /\ out' = NoOutput
            /\ data_files' = data_files
       ELSE LET r == execute_select(tables, t, columns,
                                    parse_where_clause(where_str), join)
            IN /\ res' = r.res
               /\ out' = IF r.res.status = "OK"
                         THEN [columns |-> r.columns, rows |-> r.rows]
                         ELSE NoOutput
               /\ data_files' = IF r.res.status = "OK"
                                THEN Extend(data_files, t, tables[t].data)
                                ELSE data_files
    /\ UNCHANGED <<tables, schema_files, issued, lifetime>>

\* QueryExecutor._execute_select, from the statement's texts: join is NoJoin
\* or the parsed INNER JOIN part
Select(t, columns, where_str, join) ==
    /\ IF t \notin DOMAIN tables
       THEN /\ res' = Result("select", "error", "no_table", 0, 0)
            /\ out' = NoOutput
       ELSE LET r == execute_select(tables, t, columns,
                                    parse_where_clause(where_str), join)
            IN /\ res' = r.res
               /\ out' = IF r.res.status = "OK"
                         THEN [columns |-> r.columns, rows |-> r.rows]
                         ELSE NoOutput
    /\ UNCHANGED <<tables, schema_files, data_files, issued, lifetime>>

QueryNext ==
    \/ \E t \in QueryTables, text \in QueryCreateTexts : CreateTable(t, text)
    \/ \E t \in QueryTables, q \in QueryInsertStmts : QueryInsert(t, q[1], q[2])
    \/ \E t \in QueryTables, where \in WhereClauses : Delete(t, where)
    \/ \E t \in QueryTables, columns \in Projections, where_str \in WhereTexts :
          Select(t, columns, where_str, NoJoin)
    \/ \E t \in QueryTables, R \in QueryTables, c \in JoinColumns,
          columns \in JoinProjections, where_str \in JoinWhereTexts :
          Select(t, columns, where_str, parse_join(R, OnText(t, c, R, c)))

\* The query machine: tables are built by CREATE TABLE, INSERT and DELETE and
\* read by SELECT, with and without INNER JOIN.
SpecQuery == QueryInit /\ [][QueryNext]_vars

\* ------------------------------------------------------- all statements

\* The statements of the whole machine: all five statements and the restart
\* of the Executor on one table, each with a few inputs.  The only table ever
\* created is "users"; a SELECT may name "orders" as its right table.
FullInsertStmts ==
    {<< <<>>, <<v, w>> >> : v \in {"None", "1"}, w \in {"None", "'a'"}}

FullSetClauses ==
    { << <<"email", "'a'">> >>,
      << <<"email", "'b'">> >>,
      << <<"nope", "1">> >> }

FullWhereTexts == { <<>>, <<"email", " ", "=", " ", "'a'">> }

FullJoinTables == {"users", "orders"}

\* Texts the parser is given, well formed and not: column definitions
\* without a type or naming the same column twice, SET clauses with a term without '=', ON conditions whose
\* operands are not table.column or that have no or two '=', and statements
\* starting with another keyword
FullCreateTexts ==
    QueryCreateTexts
        \cup { << <<"id">> >>, << <<"id", "INT">>, <<"email">> >> }
        \cup { << <<"id", "INT">>, <<"id", "TEXT", "UNIQUE">> >> }

FullSetTexts ==
    { <<"email", " ", "=", " ", "'a'">>,
      <<"email", " ", "=", " ", "'b'">>,
      <<"nope", " ", "=", " ", "1">>,
      <<"email", " ", "'a'">>,
      <<"email", " ", "=", " ", "'a'", ",", " ", "id">> }

FullJoinConditions(L, R) ==
    { OnText(L, "email", R, "email"),
      <<"email", " ", "=", " ", "email">>,
      <<L, ".", "email", " ", "=", " ", R, ".", "x", ".", "email">>,
      <<L, ".", "email">>,
      OnText(L, "email", R, "email") \o <<" ", "=", " ", R, ".", "id">> }

FullKeywords == {"DROP TABLE", "SELECT"}

\* DatabaseEngine.execute on a text the parser raises on: nothing is executed
ParseError(kind) ==
    /\ res' = Result("parse", "error", kind, 0, 0)
    /\ out' = NoOutput
    /\ UNCHANGED <<tables, schema_files, data_files, issued, lifetime>>

\* DatabaseEngine.execute on the texts of the statements: parse, then execute
ExecuteCreateTable(t, text) ==
    IF parse_create_table_error(text) # "ok"
    THEN ParseError(parse_create_table_error(text))
    ELSE CreateTable(t, text)

ExecuteUpdate(t, set_clause, where) ==
    IF parse_set_error(set_clause) # "ok"
    THEN ParseError(parse_set_error(set_clause))
    ELSE Update(t, parse_set(set_clause), where)

ExecuteSelectJoin(t, where_str, R, join_condition) ==
    IF parse_join_error(join_condition) # "ok"
    THEN ParseError(parse_join_error(join_condition))
    ELSE Select(t, <<"*">>, where_str, parse_join(R, join_condition))

\* A text that starts with no statement keyword, or with one and does not
\* match that statement's pattern ("Invalid ... syntax")
ExecuteUnsupported(keyword) ==
    IF parse_keyword_error(keyword) # "ok"
    THEN ParseError(parse_keyword_error(keyword))
    ELSE ParseError("SyntaxError")

FullNext ==
    \/ \E t \in TableNames, text \in FullCreateTexts : ExecuteCreateTable(t, text)
    \/ \E t \in TableNames, q \in FullInsertStmts : Insert(t, q[1], q[2])
    \/ \E t \in TableNames, set_clause \in FullSetTexts, where \in WhereClauses :
          ExecuteUpdate(t, set_clause, where)
    \/ \E t \in TableNames, where \in WhereClauses : Delete(t, where)
    \/ \E t \in TableNames, where_str \in FullWhereTexts :
          Select(t, <<"*">>, where_str, NoJoin)
    \/ \E t \in TableNames, R \in FullJoinTables, where_str \in FullWhereTexts :
          \E join_condition \in FullJoinConditions(t, R) :
             ExecuteSelectJoin(t, where_str, R, join_condition)
    \/ \E keyword \in FullKeywords : ExecuteUnsupported(keyword)
    \/ Reload

SpecFull == Init /\ [][FullNext]_vars

\* ------------------------------------------------------------- updates

\* The statements of the update machine: INSERTs of whole rows and the SET
\* clauses of single-column, two-column and unknown-column UPDATEs
UpdateInsertStmts ==
    {<< <<>>, <<v, w>> >> : v \in {"None", "1", "True"}, w \in {"None", "'a'", "'b'"}}

UpdateSetClauses ==
    { << <<"id", "1">> >>,
      << <<"email", "'b'">> >>,
      << <<"email", "None">> >>,
      << <<"email", "'a'">>, <<"id", "True">> >>,
      << <<"nope", "1">> >> }

UpdateNext ==
    \/ \E t \in TableNames, text \in CreateTexts : CreateTable(t, text)
    \/ \E t \in TableNames, q \in UpdateInsertStmts : Insert(t, q[1], q[2])
    \/ \E t \in TableNames, set \in UpdateSetClauses, where \in WhereClauses :
          Update(t, set, where)
    \/ \E t \in TableNames, where \in WhereClauses : Delete(t, where)

\* The update machine: one Executor driven by a smaller set of statements, so
\* that each UPDATE step can be compared with every statement that explains it.
SpecUpdate == Init /\ [][UpdateNext]_vars

\* --------------------------------------------------------------- filters

\* The statements of the filter machine, given to QueryExecutor.execute as
\* parsed queries: condition lists with = and != on the column without an
\* index (id) and != on the indexed one (email), one list with an equality on
\* the indexed column, and SET clauses for each column
ScanWhereClauses ==
    { <<>>,
      <<Condition("id", "=", "1")>>,
      <<Condition("id", "!=", "1")>>,
      <<Condition("id", "=", "None")>>,
      <<Condition("id", "=", "1"), Condition("email", "!=", "'a'")>>,
      <<Condition("email", "!=", "None"), Condition("id", "!=", "1")>>,
      <<Condition("id", "!=", "1"), Condition("email", "=", "'a'")>> }

ScanSetClauses ==
    { << <<"id", "1">> >>,
      << <<"email", "'b'">> >> }

\* QueryExecutor._execute_select on a parsed query without JOIN
SelectWhere(t, columns, where) ==
    /\ IF t \notin DOMAIN tables
       THEN /\ res' = Result("select", "error", "no_table", 0, 0)
            /\ out' = NoOutput
       ELSE LET r == execute_select(tables, t, columns, where, NoJoin)
            IN /\ res' = r.res
               /\ out' = IF r.res.status = "OK"
                         THEN [columns |-> r.columns, rows |-> r.rows]
                         ELSE NoOutput
    /\ UNCHANGED <<tables, schema_files, data_files, issued, lifetime>>

ScanNext ==
    \/ \E t \in TableNames, text \in QueryCreateTexts : CreateTable(t, text)
    \/ \E t \in TableNames, q \in QueryInsertStmts : Insert(t, q[1], q[2])
    \/ \E t \in TableNames, set \in ScanSetClauses, where \in ScanWhereClauses :
          Update(t, set, where)
    \/ \E t \in TableNames, where \in ScanWhereClauses : Delete(t, where)
    \/ \E t \in TableNames, where \in ScanWhereClauses :
          SelectWhere(t, <<"*">>, where)

\* The filter machine: one table users (id INT, email TEXT UNIQUE) whose rows
\* are selected, updated and deleted through parsed condition lists.
SpecScan == Init /\ [][ScanNext]_vars

\* ------------------------------------------------------ partial updates

\* The statements of the partial-update machine: one table users (id INT,
\* email TEXT UNIQUE) that has had up to MaxRows rows, and UPDATEs of all
\* rows or of the rows with id = 1 that set the unique column, the other
\* column, or a column that does not exist
PartialInsertStmts ==
    {<< <<>>, <<v, w>> >> : v \in {"None", "1"}, w \in {"None", "'a'", "'b'"}}

PartialSetClauses ==
    { << <<"email", "'b'">> >>,
      << <<"id", "1">> >>,
      << <<"id", "1">>, <<"email", "'b'">> >>,
      << <<"nope", "1">> >> }

PartialWhereClauses ==
    { <<>>, <<Condition("id", "=", "1")>> }

\* An INSERT while the table has had fewer than MaxRows rows
PartialInsert(t, columns, values) ==
    /\ Len(lifetime[t]) < MaxRows
    /\ InsertInto(t, columns, values)

PartialNext ==
    \/ \E t \in TableNames, text \in QueryCreateTexts : CreateTable(t, text)
    \/ \E t \in TableNames, q \in PartialInsertStmts : PartialInsert(t, q[1], q[2])
    \/ \E t \in TableNames, set \in PartialSetClauses, where \in PartialWhereClauses :
          Update(t, set, where)
    \/ \E t \in TableNames, where \in PartialWhereClauses : Delete(t, where)
    \/ \E t \in TableNames, where \in PartialWhereClauses :
          SelectWhere(t, <<"*">>, where)
    \/ Reload

\* The partial-update machine: UPDATEs over up to MaxRows rows, so that a
\* statement can fail with rows before and rows after the failing one, then
\* the statements and the restart that may follow the failure.
SpecPartial == Init /\ [][PartialNext]_vars

\* ----------------------------------------------------------- index calls

\* The Index methods called directly on the Index of the unique column of a
\* table (users: id INT, email TEXT UNIQUE), with any value and any row-id
\* up to MaxRowId; res holds the method, its success flag and the row-id.
IndexColumn == "email"

IndexResult(op, ok, row_id) ==
    Result(op, IF ok THEN "OK" ELSE "error", "", row_id, 0)

IndexStep(t, idx, op, ok, row_id) ==
    /\ t \in DOMAIN tables
    /\ tables' = [tables EXCEPT ![t].indexes =
                     DictPut(tables[t].indexes, IndexColumn, idx)]
    /\ res' = IndexResult(op, ok, row_id)
    /\ out' = NoOutput
    /\ UNCHANGED <<schema_files, data_files, issued, lifetime>>

IndexOf(t) == DictVal(tables[t].indexes, IndexColumn)

IndexInsert(t, value, row_id) ==
    /\ t \in DOMAIN tables
    /\ LET r == Index_insert(IndexOf(t), value, row_id)
       IN IndexStep(t, r[2], "index_insert", r[1], row_id)

IndexDelete(t, value, row_id) ==
    /\ t \in DOMAIN tables
    /\ IndexStep(t, Index_delete(IndexOf(t), value, row_id),
                 "index_delete", TRUE, row_id)

IndexUpdate(t, old_value, new_value, row_id) ==
    /\ t \in DOMAIN tables
    /\ LET r == Index_update(IndexOf(t), old_value, new_value, row_id)
       IN IndexStep(t, r[2], "index_update", r[1], row_id)

IndexNext ==
    \/ \E t \in TableNames, text \in QueryCreateTexts : CreateTable(t, text)
    \/ \E t \in TableNames, value \in Values, row_id \in 1..MaxRowId :
          IndexInsert(t, value, row_id)
    \/ \E t \in TableNames, value \in Values, row_id \in 1..MaxRowId :
          IndexDelete(t, value, row_id)
    \/ \E t \in TableNames, old_value \in Values, new_value \in Values,
          row_id \in 1..MaxRowId :
          IndexUpdate(t, old_value, new_value, row_id)

\* The index machine: one unique Index driven through its own methods.
SpecIndex == Init /\ [][IndexNext]_vars

\* ----------------------------------------------------------------- claims

RowKeys(table) == DictKeys(table.data)

RowOf(table, k) == DictVal(table.data, k)

UniqueColumns(table) ==
    {table.schema[i].name : i \in {j \in 1..Len(table.schema) : table.schema[j].is_unique}}

\* C1: between statements, in every table and for every column marked unique,
\* no two distinct row-ids hold equal non-null values in that column, and the
\* column's index maps each value to at most one row-id.
C1_UniqueValues ==
    \A t \in DOMAIN tables : \A c \in UniqueColumns(tables[t]) :
        /\ \A k1 \in RowKeys(tables[t]), k2 \in RowKeys(tables[t]) :
              (k1 # k2 /\ RowGet(RowOf(tables[t], k1), c) # "None")
                  => ~PyEq(RowGet(RowOf(tables[t], k1), c),
                           RowGet(RowOf(tables[t], k2), c))
        /\ c \in DictKeys(tables[t].indexes)
        /\ \A v \in DOMAIN DictVal(tables[t].indexes, c) :
              Cardinality(DictVal(tables[t].indexes, c)[v]) <= 1

\* C1 witness: a reloaded table holds a row with a unique value, and an Insert
\* repeating it has just been refused as a duplicate.
C1_Witness ==
    /\ res.op = "insert" /\ res.kind = "duplicate"
    /\ "users" \in DOMAIN tables
    /\ issued["users"] = <<>> /\ lifetime["users"] # <<>>
    /\ \E k \in RowKeys(tables["users"]) :
          RowGet(RowOf(tables["users"], k), "email") = "'a'"

\* The constraint words of a column definition contain PRIMARY KEY / UNIQUE
HasPrimaryKeyWords(constraints) ==
    \E i \in 1..(Len(constraints) - 1) :
        constraints[i] = "PRIMARY" /\ constraints[i + 1] = "KEY"

HasUniqueWord(constraints) == "UNIQUE" \in Range(constraints)

\* C2: a column created from CREATE TABLE text whose constraint tokens contain
\* PRIMARY KEY is primary and unique and has an Index, and get_table_info
\* reports is_primary for it; one whose tokens contain UNIQUE is unique and
\* has an Index.
C2_ConstraintFlags ==
    \A t \in DOMAIN tables : \A i \in 1..Len(schema_files[t]) :
        LET tokens == schema_files[t][i].constraints
            col == tables[t].schema[i]
        IN /\ HasPrimaryKeyWords(tokens) =>
                 /\ col.is_primary /\ col.is_unique
                 /\ col.name \in DictKeys(tables[t].indexes)
                 /\ get_table_info(tables[t])[i].is_primary
           /\ HasUniqueWord(tokens) =>
                 col.is_unique /\ col.name \in DictKeys(tables[t].indexes)

Consecutive(ids) == \A i \in 2..Len(ids) : ids[i] = ids[i - 1] + 1

\* C3: within one Executor, the row-ids returned by successful Inserts on a
\* table are consecutive and increasing whatever Updates, Deletes and failed
\* Inserts come between them, they are 1, 2, 3, ... when the table has had no
\* Insert under an earlier Executor, and the counter stands one past the last.
C3_SequentialRowIds ==
    \A t \in DOMAIN tables :
        /\ Consecutive(issued[t])
        /\ issued[t] = lifetime[t] => \A i \in 1..Len(issued[t]) : issued[t][i] = i
        /\ issued[t] # <<>> => tables[t].next_row_id = issued[t][Len(issued[t])] + 1

\* C3 witness: the second Insert of an Executor returns 2 although a Delete
\* has emptied the table before it.
C3_Witness ==
    /\ res.op = "insert" /\ res.status = "OK" /\ res.row_id = 2
    /\ "users" \in DOMAIN tables
    /\ issued["users"] = <<1, 2>>
    /\ Len(tables["users"].data) = 1

\* C4: a row-id once assigned in a table is never assigned again in that
\* table's lifetime, Executor reloads included.
C4_NeverReassigned ==
    \A t \in TableNames : \A i \in 1..Len(lifetime[t]), j \in 1..Len(lifetime[t]) :
        i # j => lifetime[t][i] # lifetime[t][j]

\* The row store as a mapping: the set of its <<row-id key, row>> entries
RowMap(table) == Range(table.data)

\* C5: between statements, a new Executor built from the same storage holds,
\* for every table, the same schema, the same row-id to row contents and the
\* same index lookup results as the current Executor.
C5_ReloadIdentity ==
    LET loaded == LoadExistingTables IN
    /\ DOMAIN loaded = DOMAIN tables
    /\ \A t \in DOMAIN tables :
          /\ loaded[t].schema = tables[t].schema
          /\ RowMap(loaded[t]) = RowMap(tables[t])
          /\ DictKeys(loaded[t].indexes) = DictKeys(tables[t].indexes)
          /\ \A c \in DictKeys(tables[t].indexes), v \in Values :
                Index_search(DictVal(loaded[t].indexes, c), v)
                    = Index_search(DictVal(tables[t].indexes, c), v)

\* C6: in every table state, for every indexed column c and every value v,
\* null included, the rows the condition c = v selects through the index are
\* exactly the rows a full scan with that condition selects.
C6_IndexEqualsScan ==
    \A t \in DOMAIN tables : \A c \in DictKeys(tables[t].indexes), v \in Values :
        Range(apply_where_clause(tables[t], tables[t].data, <<Condition(c, "=", v)>>))
            = Range(full_scan(tables[t].data, <<Condition(c, "=", v)>>))

\* An Update's SET gives a unique column of a targeted row a non-null value
\* that a different row holds
SetConflicts(table, set, where) ==
    \E e \in Range(apply_where_clause(table, table.data, where)) :
    \E k2 \in RowKeys(table) \ {e[1]} :
    \E i \in 1..Len(set) :
        /\ set[i][1] \in UniqueColumns(table)
        /\ set[i][2] # "None"
        /\ PyEq(RowGet(RowOf(table, k2), set[i][1]), set[i][2])

\* Two row stores hold the same row-ids with equal (Python ==) values
SameRows(d1, d2) ==
    /\ DictKeys(d1) = DictKeys(d2)
    /\ \A k \in DictKeys(d1) :
          /\ DOMAIN DictVal(d1, k) = DOMAIN DictVal(d2, k)
          /\ \A c \in DOMAIN DictVal(d1, k) : PyEq(DictVal(d1, k)[c], DictVal(d2, k)[c])

\* C7: an Update whose SET would give a unique column of a targeted row a
\* non-null value already held by a different row fails with a duplicate-value
\* error and leaves every row as it was before the statement, however many
\* rows it targets.
C7_ConflictingUpdateKeepsRows ==
    [][\A t \in DOMAIN tables, set \in SetClauses, where \in WhereClauses :
          (Update(t, set, where) /\ SetConflicts(tables[t], set, where))
              => /\ res'.status = "error" /\ res'.kind = "duplicate"
                 /\ SameRows(tables'[t].data, tables[t].data)]_vars

\* C8: an Insert that fails, for whatever reason, leaves the row store, every
\* index, next_row_id and the persisted schema and snapshot as they were.
C8_FailedInsertNoEffect ==
    [][(res'.op = "insert" /\ res'.status = "error")
          => /\ tables' = tables
             /\ data_files' = data_files
             /\ schema_files' = schema_files]_vars

\* C8 witness: an Insert refused as a duplicate on a table that holds a row
\* and whose two columns are both indexed.
C8_Witness ==
    /\ res.op = "insert" /\ res.status = "error" /\ res.kind = "duplicate"
    /\ "users" \in DOMAIN tables
    /\ Len(tables["users"].indexes) = 2
    /\ Len(tables["users"].data) = 1

\* C9: between statements, after successes, failures and reloads, for every
\* table and indexed column c, the index maps value v to row-id r exactly when
\* row r is stored and holds the non-null value v in c.
C9_IndexReflectsRows ==
    \A t \in DOMAIN tables : \A c \in DictKeys(tables[t].indexes) :
        LET idx == DictVal(tables[t].indexes, c) IN
        /\ \A k \in RowKeys(tables[t]) :
              RowGet(RowOf(tables[t], k), c) # "None"
                  => int(k) \in Index_search(idx, RowGet(RowOf(tables[t], k), c))
        /\ \A v \in DOMAIN idx :
              /\ idx[v] # {}
              /\ \A r \in idx[v] :
                    /\ str(r) \in RowKeys(tables[t])
                    /\ RowGet(RowOf(tables[t], str(r)), c) # "None"
                    /\ PyKey(RowGet(RowOf(tables[t], str(r)), c)) = v

\* C9 witness: an Update has failed after changing a row (memory and snapshot
\* differ) and the index holds the changed value.
C9_Witness ==
    /\ res.op = "update" /\ res.status = "error"
    /\ "users" \in DOMAIN tables
    /\ tables["users"].data # data_files["users"]
    /\ \E c \in DictKeys(tables["users"].indexes) :
          DOMAIN DictVal(tables["users"].indexes, c) # {}

\* C10: every stored row of every table has exactly the table's column names
\* as its keys.
C10_RowKeysAreColumns ==
    \A t \in DOMAIN tables : \A k \in RowKeys(tables[t]) :
        DOMAIN RowOf(tables[t], k) = SchemaNames(tables[t])

\* C10 witness: an Insert has stored a row whose id column was filled with
\* null, and an Update has then succeeded on it.
C10_Witness ==
    /\ res.op = "update" /\ res.status = "OK" /\ res.count = 1
    /\ "users" \in DOMAIN tables
    /\ \E k \in RowKeys(tables["users"]) :
          /\ RowGet(RowOf(tables["users"], k), "id") = "None"
          /\ RowGet(RowOf(tables["users"], k), "email") = "'b'"

\* The columns declared PRIMARY KEY in the CREATE TABLE text of table t
DeclaredPrimary(t) ==
    {schema_files[t][i].name :
        i \in {j \in 1..Len(schema_files[t]) :
                  HasPrimaryKeyWords(schema_files[t][j].constraints)}}

\* C11: in every reachable state no stored row holds null in a primary-key
\* column (an Insert or Update that would leave it null fails with a
\* null-primary-key error, so no such row is ever stored).
C11_NoNullPrimaryKey ==
    \A t \in DOMAIN tables : \A c \in DeclaredPrimary(t) :
        \A k \in RowKeys(tables[t]) : RowGet(RowOf(tables[t], k), c) # "None"

\* The value an INSERT with this column list (<<>>: the schema's declared
\* order) and value list supplies for column c, null when it supplies none
Supplied(table, columns, values, c) ==
    LET names == IF columns # <<>> THEN columns
                 ELSE [i \in 1..Len(table.schema) |-> table.schema[i].name]
    IN IF \E i \in 1..Len(names) : names[i] = c
       THEN values[CHOOSE i \in 1..Len(names) : names[i] = c]
       ELSE "None"

\* C12: a successful Insert stores, under the newly assigned row-id, a row that
\* maps each supplied column to its supplied value (paired positionally with
\* the explicit column list, or with the schema order when it is omitted) and
\* every other column to null; all other rows of the table are unchanged.
C12_InsertStoresRow ==
    [][\A t \in DOMAIN tables, q \in InsertStmts :
          (res'.op = "insert" /\ res'.status = "OK" /\ Insert(t, q[1], q[2]))
              => LET k == str(res'.row_id) IN
                 /\ k \notin RowKeys(tables[t])
                 /\ RowKeys(tables'[t]) = RowKeys(tables[t]) \cup {k}
                 /\ DOMAIN RowOf(tables'[t], k) = SchemaNames(tables[t])
                 /\ \A c \in SchemaNames(tables[t]) :
                       RowOf(tables'[t], k)[c] = Supplied(tables[t], q[1], q[2], c)
                 /\ \A k2 \in RowKeys(tables[t]) :
                       RowOf(tables'[t], k2) = RowOf(tables[t], k2)]_vars

\* C12 witness: a second row has just been inserted with an explicit column
\* list in the reverse of the schema order, next to a first row.
C12_Witness ==
    /\ res.op = "insert" /\ res.status = "OK" /\ res.row_id = 2
    /\ "users" \in DOMAIN tables
    /\ RowKeys(tables["users"]) = {"1", "2"}
    /\ RowOf(tables["users"], "2") = [id |-> "1", email |-> "'b'"]
    /\ RowOf(tables["users"], "1") = [id |-> "None", email |-> "'a'"]

\* The text "c != v" of a WHERE term
NotEqualText(c, v) == <<c, " ", "!", "=", " ", v>>

\* The rows of a table, in store order, whose value in column c is not equal
\* to v
RowsNotEqual(table, c, v) ==
    LET f == SelectSeq(table.data, LAMBDA e : ~PyEq(RowGet(e[2], c), v))
    IN [i \in 1..Len(f) |-> f[i][2]]

\* C13: a Select whose condition is the text c != v, c a column of the table,
\* returns exactly the rows whose value in c is not equal to v, and the parser
\* produces a condition with column c and operator != for that text.
C13_NotEqualCondition ==
    [][\A t \in DOMAIN tables :
          Select(t, <<"*">>, NotEqualText("id", "1"), NoJoin)
              => /\ parse_where_clause(NotEqualText("id", "1"))
                       = <<Condition("id", "!=", "1")>>
                 /\ res'.status = "OK"
                 /\ out'.rows = RowsNotEqual(tables[t], "id", "1")]_vars

\* type(value).__name__ of a modelled value
RuntimeType(v) ==
    IF v = "None" THEN "NoneType"
    ELSE IF v \in {"True", "False"} THEN "bool"
    ELSE IF v \in DigitLiterals THEN "int"
    ELSE IF v \in FloatLiterals THEN "float"
    ELSE "str"

\* The runtime type a column's declared type stands for
DeclaredType(dtype) ==
    IF dtype = "INT" THEN "int" ELSE IF dtype = "TEXT" THEN "str" ELSE "bool"

\* A non-null value whose runtime type is not the column's declared type
TypeMismatch(col, v) == v # "None" /\ RuntimeType(v) # DeclaredType(col.dtype)

\* The (column, value) pairs an INSERT supplies
SuppliedPairs(table, columns, values) ==
    LET names == IF columns # <<>> THEN columns
                 ELSE [i \in 1..Len(table.schema) |-> table.schema[i].name]
    IN [i \in 1..Len(values) |-> <<names[i], values[i]>>]

KnownColumns(table, pairs) ==
    \A i \in 1..Len(pairs) : HasColumn(table, pairs[i][1])

\* C14: an Insert or Update naming only columns of the table is rejected with
\* a type-mismatch error exactly when it supplies some column with a non-null
\* value whose runtime type is not the column's declared type (integer for
\* INT, string for TEXT, boolean for BOOL); null is accepted for every type.
C14_RuntimeTypeChecked ==
    [][\A t \in DOMAIN tables :
          /\ \A q \in InsertStmts :
                LET pairs == SuppliedPairs(tables[t], q[1], q[2]) IN
                (/\ Insert(t, q[1], q[2])
                 /\ Len(q[2]) = (IF q[1] # <<>> THEN Len(q[1])
                                 ELSE Len(tables[t].schema))
                 /\ KnownColumns(tables[t], pairs))
                    => (res'.kind = "type"
                           <=> \E i \in 1..Len(pairs) :
                                  TypeMismatch(FindColumn(tables[t], pairs[i][1]),
                                               pairs[i][2]))
          /\ \A set \in SetClauses, where \in WhereClauses :
                (/\ Update(t, set, where)
                 /\ apply_where_clause(tables[t], tables[t].data, where) # <<>>
                 /\ KnownColumns(tables[t], set))
                    => (res'.kind = "type"
                           <=> \E i \in 1..Len(set) :
                                  TypeMismatch(FindColumn(tables[t], set[i][1]),
                                               set[i][2]))]_vars

\* C15: a Select (without join) whose projection list names a column that is
\* not in the table's schema fails with an unknown-column error in every
\* table state, whatever rows the table holds and the WHERE clause selects.
C15_UnknownProjectionFails ==
    [][\A t \in DOMAIN tables, where_str \in WhereTexts :
          (Select(t, <<"nope">>, where_str, NoJoin) /\ ~HasColumn(tables[t], "nope"))
              => res'.status = "error" /\ res'.kind = "unknown_column"]_vars

\* The text "c = v" of a WHERE term
EqualText(c, v) == <<c, " ", "=", " ", v>>

\* C16: a Select whose WHERE condition list names a column that is not in the
\* table's schema fails with an unknown-column error instead of returning a
\* row set.
C16_UnknownWhereColumnFails ==
    [][\A t \in DOMAIN tables, columns \in {<<"*">>, <<"email">>} :
          (Select(t, columns, EqualText("nope", "1"), NoJoin)
              /\ ~HasColumn(tables[t], "nope"))
              => res'.status = "error" /\ res'.kind = "unknown_column"]_vars

\* The row-id keys of the rows a condition list selects in a table
Selected(table, where) ==
    LET f == apply_where_clause(table, table.data, where)
    IN {f[i][1] : i \in 1..Len(f)}

\* C17: a Delete removes exactly the rows its condition list selects (every
\* row when there is no WHERE; the rows holding v in c for a single condition
\* c = v with v not null), reports their number as deleted_count, removes
\* their row-ids from every index, leaves every other row and next_row_id
\* unchanged and persists the snapshot when at least one row was removed;
\* afterwards no condition list selects a deleted row.
C17_DeleteRemovesSelected ==
    [][\A t \in DOMAIN tables, where \in WhereClauses :
          (res'.op = "delete" /\ Delete(t, where))
              => LET gone == Selected(tables[t], where) IN
                 /\ where = <<>> => gone = RowKeys(tables[t])
                 /\ (Len(where) = 1 /\ where[1].value # "None")
                       => gone = {k \in RowKeys(tables[t]) :
                                     PyEq(RowGet(RowOf(tables[t], k), where[1].column),
                                          where[1].value)}
                 /\ res'.status = "OK" /\ res'.count = Cardinality(gone)
                 /\ RowKeys(tables'[t]) = RowKeys(tables[t]) \ gone
                 /\ \A k \in RowKeys(tables'[t]) :
                       RowOf(tables'[t], k) = RowOf(tables[t], k)
                 /\ tables'[t].next_row_id = tables[t].next_row_id
                 /\ tables'[t].schema = tables[t].schema
                 /\ DictKeys(tables'[t].indexes) = DictKeys(tables[t].indexes)
                 /\ \A c \in DictKeys(tables[t].indexes), v \in Values :
                       Index_search(DictVal(tables'[t].indexes, c), v)
                           = Index_search(DictVal(tables[t].indexes, c), v)
                                 \ {int(k) : k \in gone}
                 /\ gone # {} => data_files'[t] = tables'[t].data
                 /\ \A w \in WhereClauses : Selected(tables'[t], w) \cap gone = {}]_vars

\* C17 witness: a Delete has removed one of two rows of a table whose two
\* columns are indexed, and the snapshot holds the remaining row.
C17_Witness ==
    /\ res.op = "delete" /\ res.status = "OK" /\ res.count = 1
    /\ "users" \in DOMAIN tables
    /\ Len(tables["users"].indexes) = 2
    /\ RowKeys(tables["users"]) = {"2"}
    /\ data_files["users"] = tables["users"].data

\* The columns a SET clause assigns
SetColumns(set) == {set[i][1] : i \in 1..Len(set)}

\* C18: a successful Update changes only the SET columns of the targeted
\* rows, which then hold the SET values: the set of row-ids stored,
\* next_row_id, the non-SET columns of the targeted rows and every
\* non-targeted row are unchanged, and updated_count is the number of
\* targeted rows.
C18_UpdateFrame ==
    [][(res'.op = "update" /\ res'.status = "OK")
          => \A t \in DOMAIN tables, set \in UpdateSetClauses, where \in WhereClauses :
                Update(t, set, where)
                    => LET targeted == Selected(tables[t], where) IN
                       /\ RowKeys(tables'[t]) = RowKeys(tables[t])
                       /\ tables'[t].next_row_id = tables[t].next_row_id
                       /\ res'.count = Cardinality(targeted)
                       /\ \A k \in RowKeys(tables[t]) :
                             /\ DOMAIN RowOf(tables'[t], k) = DOMAIN RowOf(tables[t], k)
                             /\ \A c \in DOMAIN RowOf(tables[t], k) :
                                   \/ k \in targeted /\ c \in SetColumns(set)
                                   \/ RowOf(tables'[t], k)[c] = RowOf(tables[t], k)[c]
                       /\ \A k \in targeted, i \in 1..Len(set) :
                             RowOf(tables'[t], k)[set[i][1]] = set[i][2]]_vars

\* C18 witness: an Update without WHERE has set the id of both rows of a
\* table, whose emails differ and are as before.
C18_Witness ==
    /\ res.op = "update" /\ res.status = "OK" /\ res.count = 2
    /\ "users" \in DOMAIN tables
    /\ RowKeys(tables["users"]) = {"1", "2"}
    /\ RowOf(tables["users"], "1") = [id |-> "1", email |-> "'a'"]
    /\ RowOf(tables["users"], "2") = [id |-> "1", email |-> "'b'"]

\* The pairs <<left row, right row>> of an inner join on left.a = right.b with
\* equal non-null keys, left rows in the order given, right rows in store order
RECURSIVE JoinPairs(_, _, _, _, _)
JoinPairs(left_rows, right_rows, a, b, i) ==
    IF i > Len(left_rows) THEN <<>>
    ELSE LET l == left_rows[i][2]
             m == SelectSeq(right_rows, LAMBDA e :
                     /\ RowGet(l, a) # "None"
                     /\ RowGet(e[2], b) # "None"
                     /\ PyEq(RowGet(l, a), RowGet(e[2], b)))
         IN [j \in 1..Len(m) |-> <<l, m[j][2]>>]
                \o JoinPairs(left_rows, right_rows, a, b, i + 1)

\* m has exactly the keys L.<col> and R.<col>, carrying the left row's and
\* the right row's values
IsMerged(m, L, left_row, R, right_row) ==
    /\ DOMAIN m = {L \o "." \o c : c \in DOMAIN left_row}
                      \cup {R \o "." \o c : c \in DOMAIN right_row}
    /\ \A c \in DOMAIN left_row : m[L \o "." \o c] = left_row[c]
    /\ \A c \in DOMAIN right_row : m[R \o "." \o c] = right_row[c]

\* C19: a Select from L with INNER JOIN R ON L.a = R.b, for any two table
\* names L and R known to the engine, returns one merged row for each pair of
\* a left row passing L's conditions and a right row with an equal non-null
\* join key, and no other rows; each merged row has exactly the keys L.<col>
\* and R.<col> carrying the left and the right row's values, whatever the
\* projection list says; a left row with a null key contributes nothing.
C19_JoinResult ==
    [][res'.op = "select" =>
       \A L \in DOMAIN tables, R \in DOMAIN tables, c \in JoinColumns,
          columns \in JoinProjections, where_str \in JoinWhereTexts :
          Select(L, columns, where_str, parse_join(R, OnText(L, c, R, c)))
              => LET pairs == JoinPairs(apply_where_clause(tables[L], tables[L].data,
                                            parse_where_clause(where_str)),
                                        tables[R].data, c, c, 1)
                 IN /\ res'.status = "OK"
                    /\ Len(out'.rows) = Len(pairs)
                    /\ \A i \in 1..Len(pairs) :
                          IsMerged(out'.rows[i], L, pairs[i][1], R, pairs[i][2])]_vars

\* C20: after every statement that returns a success result, the persisted
\* row snapshot of each table equals that table's in-memory row store.
C20_SnapshotEqualsMemory ==
    res.status = "OK" =>
        \A t \in DOMAIN tables :
            t \in DOMAIN data_files /\ data_files[t] = tables[t].data

\* Every type word of a CREATE TABLE text names a data type
ValidTypes(text) ==
    \A i \in 1..Len(text) : upper(text[i][2]) \in DataTypes

\* C21: CreateTable with a name that is already known fails with a
\* table-exists error and leaves the existing table (schema, rows, indexes,
\* next_row_id) and the persisted schema and snapshot unchanged; CreateTable
\* with a new name (and valid column types) registers an empty table with
\* next_row_id = 1 and empty indexes and persists its schema and an empty
\* snapshot at once.
C21_CreateTable ==
    [][res'.op = "create" =>
       \A t \in TableNames, text \in CreateTexts :
          CreateTable(t, text)
              => IF t \in DOMAIN tables
                 THEN /\ res'.status = "error" /\ res'.kind = "table_exists"
                      /\ tables' = tables
                      /\ schema_files' = schema_files
                      /\ data_files' = data_files
                 ELSE ValidTypes(text)
                         => /\ res'.status = "OK"
                            /\ DOMAIN tables' = (DOMAIN tables) \cup {t}
                            /\ \A u \in DOMAIN tables : tables'[u] = tables[u]
                            /\ tables'[t].data = <<>>
                            /\ tables'[t].next_row_id = 1
                            /\ SchemaNames(tables'[t]) = {text[i][1] : i \in 1..Len(text)}
                            /\ \A i \in 1..Len(tables'[t].indexes) :
                                  tables'[t].indexes[i][2] = EmptyIndex
                            /\ t \in DOMAIN schema_files'
                            /\ schema_files'[t] = parse_create_table(text)
                            /\ t \in DOMAIN data_files' /\ data_files'[t] = <<>>]_vars

\* C21 witness: a CREATE TABLE naming a table that holds two rows has just
\* been refused; the rows are still there.
C21_Witness ==
    /\ res.op = "create" /\ res.status = "error" /\ res.kind = "table_exists"
    /\ "users" \in DOMAIN tables
    /\ Len(tables["users"].data) = 2
    /\ data_files["users"] = tables["users"].data

\* The step is a failure with the unknown-table error that changes no table
\* (rows, indexes, counter) and no persisted file
FailsNoTable ==
    /\ res'.status = "error" /\ res'.kind = "no_table"
    /\ tables' = tables
    /\ schema_files' = schema_files
    /\ data_files' = data_files

\* C22: Insert, Select, Update and Delete naming a table that does not exist,
\* and a Select whose JOIN names a right table that does not exist, fail with
\* a validation error and change no table, index, counter or persisted file.
C22_UnknownTable ==
    [][res'.op \in {"insert", "select", "update", "delete"} =>
       \A t \in TableNames :
          /\ t \notin DOMAIN tables =>
                /\ \A q \in FullInsertStmts : Insert(t, q[1], q[2]) => FailsNoTable
                /\ \A set \in FullSetClauses, where \in WhereClauses :
                      Update(t, set, where) => FailsNoTable
                /\ \A where \in WhereClauses : Delete(t, where) => FailsNoTable
                /\ \A where_str \in FullWhereTexts :
                      Select(t, <<"*">>, where_str, NoJoin) => FailsNoTable
          /\ \A R \in FullJoinTables, where_str \in FullWhereTexts :
                (/\ t \notin DOMAIN tables \/ R \notin DOMAIN tables
                 /\ Select(t, <<"*">>, where_str,
                           parse_join(R, OnText(t, "email", R, "email"))))
                    => FailsNoTable]_vars

\* C22 witness: a SELECT from a table that holds a row has just failed
\* because the right table of its JOIN does not exist.
C22_Witness ==
    /\ res.op = "select" /\ res.status = "error" /\ res.kind = "no_table"
    /\ "users" \in DOMAIN tables
    /\ "orders" \notin DOMAIN tables
    /\ Len(tables["users"].data) = 1

\* The grammar's forms: a column definition has a name and a type; a SET term
\* is <column> = <value>; an ON condition is <table>.<column> = <table>.<column>
GrammarColumnDefs(text) == \A i \in 1..Len(text) : Len(text[i]) >= 2

IsWord(x) == x \notin {" ", ",", ".", "!", "="}

GrammarSetClause(set_clause) ==
    \A term \in Range(split_by_commas(set_clause)) :
        /\ Len(term) = 5
        /\ IsWord(term[1]) /\ term[2] = " " /\ term[3] = "="
        /\ term[4] = " " /\ IsWord(term[5])

GrammarOnCondition(cond) ==
    /\ Len(cond) = 9
    /\ IsWord(cond[1]) /\ cond[2] = "." /\ IsWord(cond[3])
    /\ cond[4] = " " /\ cond[5] = "=" /\ cond[6] = " "
    /\ IsWord(cond[7]) /\ cond[8] = "." /\ IsWord(cond[9])

\* The step is a failure of parse with the syntax-error kind
FailsSyntaxError ==
    res'.op = "parse" /\ res'.status = "error" /\ res'.kind = "SyntaxError"

\* C23: parse fails with the syntax-error kind, and with no other kind, for
\* every text that does not match the grammar of one of the five statements:
\* a CREATE TABLE column definition without a type, an UPDATE SET term without
\* '=', a SELECT whose JOIN operands are not <table>.<column>, and a text that
\* is none of the five statements.
C23_SyntaxErrorOnly ==
    [][res'.op = "parse" =>
       \A t \in TableNames :
          /\ \A text \in FullCreateTexts :
                (ExecuteCreateTable(t, text) /\ ~GrammarColumnDefs(text))
                    => FailsSyntaxError
          /\ \A set_clause \in FullSetTexts, where \in WhereClauses :
                (ExecuteUpdate(t, set_clause, where) /\ ~GrammarSetClause(set_clause))
                    => FailsSyntaxError
          /\ \A R \in FullJoinTables, where_str \in FullWhereTexts :
                \A cond \in FullJoinConditions(t, R) :
                   (ExecuteSelectJoin(t, where_str, R, cond) /\ ~GrammarOnCondition(cond))
                       => FailsSyntaxError
          /\ \A keyword \in FullKeywords :
                ExecuteUnsupported(keyword) => FailsSyntaxError]_vars

\* The positions in a condition list of the equality conditions on a column
\* that has an index
IndexedEqualities(table, conditions) ==
    {i \in 1..Len(conditions) :
        /\ conditions[i].operator = "="
        /\ conditions[i].column \in DictKeys(table.indexes)}

FirstIndexedEquality(table, conditions) ==
    conditions[CHOOSE i \in IndexedEqualities(table, conditions) :
                  \A j \in IndexedEqualities(table, conditions) : i <= j]

\* The row-id keys of the rows of a table matching one condition c = v
KeysEqual(table, condition) ==
    {k \in RowKeys(table) :
        PyEq(RowGet(RowOf(table, k), condition.column), condition.value)}

\* The rows of a table, in store order, matching one condition c = v
RowsEqual(table, condition) ==
    LET f == SelectSeq(table.data, LAMBDA e :
                 PyEq(RowGet(e[2], condition.column), condition.value))
    IN [i \in 1..Len(f) |-> f[i][2]]

\* C24: when a condition list contains an equality condition on an indexed
\* column, the rows a Select returns and the rows a Delete removes are exactly
\* the rows matching the first such condition in list order, whatever the
\* other conditions of the list are.
C24_FirstIndexedEqualityOnly ==
    [][\A t \in DOMAIN tables :
          /\ res'.op = "select" =>
                \A where_str \in WhereTexts :
                   LET conditions == parse_where_clause(where_str) IN
                   (/\ Select(t, <<"*">>, where_str, NoJoin)
                    /\ IndexedEqualities(tables[t], conditions) # {})
                       => /\ res'.status = "OK"
                          /\ out'.rows = RowsEqual(tables[t],
                                            FirstIndexedEquality(tables[t], conditions))
          /\ res'.op = "delete" =>
                \A where \in WhereClauses :
                   (/\ Delete(t, where)
                    /\ IndexedEqualities(tables[t], where) # {})
                       => RowKeys(tables'[t])
                             = RowKeys(tables[t])
                                 \ KeysEqual(tables[t], FirstIndexedEquality(tables[t], where))]_vars

\* A row satisfies a condition: exact equality for =, exact inequality for !=
Satisfies(row, condition) ==
    IF condition.operator = "="
    THEN PyEq(RowGet(row, condition.column), condition.value)
    ELSE ~PyEq(RowGet(row, condition.column), condition.value)

\* The row-id keys of the rows of a table satisfying every condition of a list
KeysSatisfying(table, where) ==
    {k \in RowKeys(table) :
        \A i \in 1..Len(where) : Satisfies(RowOf(table, k), where[i])}

\* The rows of a table, in store order, satisfying every condition of a list
RowsSatisfying(table, where) ==
    LET f == SelectSeq(table.data, LAMBDA e :
                 \A i \in 1..Len(where) : Satisfies(e[2], where[i]))
    IN [i \in 1..Len(f) |-> f[i][2]]

\* C25: when no condition of the list is an equality on an indexed column, a
\* Select returns, a Delete removes and an Update changes exactly the rows
\* satisfying every condition of the list (every row when the list is empty):
\* a successful Update counts them and gives each the SET values, a failed one
\* has at least one of them, and no other row is changed.
C25_FullScanAllConditions ==
    [][\A t \in DOMAIN tables, where \in ScanWhereClauses :
          IndexedEqualities(tables[t], where) = {} =>
             LET target == KeysSatisfying(tables[t], where) IN
             /\ (res'.op = "select" /\ SelectWhere(t, <<"*">>, where))
                   => /\ res'.status = "OK"
                      /\ out'.rows = RowsSatisfying(tables[t], where)
             /\ (res'.op = "delete" /\ Delete(t, where))
                   => /\ res'.status = "OK" /\ res'.count = Cardinality(target)
                      /\ RowKeys(tables'[t]) = RowKeys(tables[t]) \ target
             /\ res'.op = "update" =>
                   \A set \in ScanSetClauses :
                      Update(t, set, where)
                         => /\ RowKeys(tables'[t]) = RowKeys(tables[t])
                            /\ \A k \in RowKeys(tables[t]) \ target :
                                  RowOf(tables'[t], k) = RowOf(tables[t], k)
                            /\ res'.status = "OK"
                                  => /\ res'.count = Cardinality(target)
                                     /\ \A k \in target :
                                           RowGet(RowOf(tables'[t], k), set[1][1]) = set[1][2]
                            /\ res'.status = "error" => target # {}]_vars

\* C25 witness: an UPDATE or DELETE with a two-condition list and no indexed
\* equality has just targeted one row of two.
C25_Witness ==
    /\ res.op \in {"update", "delete"} /\ res.status = "OK" /\ res.count = 1
    /\ "users" \in DOMAIN tables
    /\ Len(lifetime["users"]) = 2
    /\ \E where \in ScanWhereClauses :
          /\ Len(where) = 2
          /\ IndexedEqualities(tables["users"], where) = {}
          /\ \/ Len(tables["users"].data) = 1
             \/ /\ Len(tables["users"].data) = 2
                /\ Cardinality(KeysSatisfying(tables["users"], where)) = 1

\* The row-id keys, in store order, of the rows satisfying every condition of
\* a list
TargetKeys(table, where) ==
    LET f == SelectSeq(table.data, LAMBDA e :
                 \A i \in 1..Len(where) : Satisfies(e[2], where[i]))
    IN [i \in 1..Len(f) |-> f[i][1]]

\* Row k of the table after the step holds the SET values, and the index of
\* every indexed SET column finds it under its new non-null value
HoldsNewValues(t, k, set) ==
    \A i \in 1..Len(set) :
       /\ RowGet(RowOf(tables'[t], k), set[i][1]) = set[i][2]
       /\ (set[i][1] \in DictKeys(tables[t].indexes) /\ set[i][2] # "None")
             => int(k) \in Index_search(DictVal(tables'[t].indexes, set[i][1]),
                                        set[i][2])

\* Row k is the same before and after the step, in the row store and in what
\* every index finds
RowUntouched(t, k) ==
    /\ RowOf(tables'[t], k) = RowOf(tables[t], k)
    /\ \A c \in DictKeys(tables[t].indexes), v \in Values :
          int(k) \in Index_search(DictVal(tables'[t].indexes, c), v)
             <=> int(k) \in Index_search(DictVal(tables[t].indexes, c), v)

\* Another row than k holds, in a unique column, the non-null value the SET
\* list gives that column
HeldByOther(table, k, set) ==
    \E i \in 1..Len(set), k2 \in RowKeys(table) \ {k} :
       /\ set[i][1] \in UniqueColumns(table)
       /\ set[i][2] # "None"
       /\ PyEq(RowGet(RowOf(table, k2), set[i][1]), set[i][2])

\* C26: when an Update that targets several rows fails on a row after the
\* first (the statement reports a duplicate-value error although no other row
\* held the new values when the first row was processed), there is a failing
\* position j >= 2 among the targeted rows: the rows before j hold their new
\* values in the row store and in the indexes, the row at j, the rows after
\* it and the rows not targeted are unchanged, and the result is an error.
C26_PartialUpdateKept ==
    [][res'.op = "update" =>
       \A t \in DOMAIN tables, set \in PartialSetClauses, where \in PartialWhereClauses :
          LET target == TargetKeys(tables[t], where) IN
          (/\ Update(t, set, where)
           /\ res'.status = "error" /\ res'.kind = "duplicate"
           /\ Len(target) >= 2
           /\ ~HeldByOther(tables[t], target[1], set))
              => /\ RowKeys(tables'[t]) = RowKeys(tables[t])
                 /\ \E j \in 2..Len(target) :
                       /\ \A i \in 1..(j - 1) : HoldsNewValues(t, target[i], set)
                       /\ \A i \in j..Len(target) : RowUntouched(t, target[i])
                 /\ \A k \in RowKeys(tables[t]) \ Range(target) : RowUntouched(t, k)
                 /\ tables'[t].next_row_id = tables[t].next_row_id]_vars

\* C26 witness: an UPDATE of three rows has just failed after its first row:
\* row 1 holds the new value 'b', rows 2 and 3 hold other values.
C26_Witness ==
    /\ res.op = "update" /\ res.status = "error" /\ res.kind = "duplicate"
    /\ "users" \in DOMAIN tables
    /\ RowKeys(tables["users"]) = {"1", "2", "3"}
    /\ RowGet(RowOf(tables["users"], "1"), "email") = "'b'"
    /\ RowGet(RowOf(tables["users"], "2"), "email") = "None"
    /\ RowGet(RowOf(tables["users"], "3"), "email") = "'a'"
    /\ data_files["users"] # tables["users"].data

\* The rows of a table in store order
AllRows(table) == [i \in 1..Len(table.data) |-> table.data[i][2]]

\* The step is an Insert, Update or Delete that succeeded in changing at
\* least one row
MutationSucceeds ==
    /\ res'.status = "OK"
    /\ \/ res'.op = "insert"
       \/ res'.op \in {"update", "delete"} /\ res'.count > 0

\* C27: an Update that fails leaves the persisted snapshot as it was, whatever
\* it changed in memory.  From then on, while the rows in memory differ from
\* the snapshot: a Select without conditions returns the rows in memory, a
\* reload replaces them by the snapshot's rows, the snapshot changes only in a
\* step where an Insert, Update or Delete on the table succeeds in changing at
\* least one row, and such a step stores the rows in memory.
C27_FailedUpdateNotPersisted ==
    [][\A t \in DOMAIN tables :
          /\ (res'.op = "update" /\ res'.status = "error")
                => data_files' = data_files
          /\ (t \in DOMAIN data_files /\ tables[t].data # data_files[t])
                => /\ (res'.op = "select" /\ SelectWhere(t, <<"*">>, <<>>))
                         => /\ res'.status = "OK"
                            /\ out'.rows = AllRows(tables[t])
                            /\ data_files' = data_files
                   /\ res'.op = "reload"
                         => /\ tables'[t].data = data_files[t]
                            /\ data_files' = data_files
                   /\ data_files'[t] # data_files[t] => MutationSucceeds
                   /\ MutationSucceeds => data_files'[t] = tables'[t].data]_vars

\* C27 witness: after an UPDATE failed on its second row, a SELECT has just
\* returned row 1 with its new email 'b' while the snapshot holds the row
\* with the email it had before.
C27_Witness ==
    /\ res.op = "select" /\ res.status = "OK"
    /\ "users" \in DOMAIN tables
    /\ Len(out.rows) >= 2
    /\ RowGet(out.rows[1], "email") = "'b'"
    /\ RowGet(data_files["users"][1][2], "email") # "'b'"

\* A SET list that names a column that is not in the schema or gives a column
\* a non-null value whose runtime type is not the column's declared type
InvalidSet(table, set) ==
    \E i \in 1..Len(set) :
       \/ ~HasColumn(table, set[i][1])
       \/ TypeMismatch(FindColumn(table, set[i][1]), set[i][2])

\* C28: an Update whose SET list names a column that is not in the schema, or
\* gives a value of the wrong type, and that targets at least one row fails
\* with an unknown-column or type-mismatch error and modifies no row, no
\* index and no persisted snapshot.
C28_InvalidSetChangesNothing ==
    [][res'.op = "update" =>
       \A t \in DOMAIN tables, set \in SetClauses, where \in WhereClauses :
          (/\ Update(t, set, where)
           /\ Selected(tables[t], where) # {}
           /\ InvalidSet(tables[t], set))
              => /\ res'.status = "error"
                 /\ res'.kind \in {"unknown_column", "type"}
                 /\ tables' = tables
                 /\ data_files' = data_files]_vars

\* Row k already holds the non-null value the SET list gives a unique column
HeldBySelf(table, k, set) ==
    \E i \in 1..Len(set) :
       /\ set[i][1] \in UniqueColumns(table)
       /\ set[i][2] # "None"
       /\ PyEq(RowGet(RowOf(table, k), set[i][1]), set[i][2])

\* C29: an Update of one row that gives a unique column the value that row
\* already holds succeeds with updated_count 1, the row holding the SET values
\* and the index still finding it alone under the value; when another row
\* holds the value the statement fails with the duplicate-value error and
\* changes nothing.
C29_OwnValueUpdate ==
    [][res'.op = "update" =>
       \A t \in DOMAIN tables, set \in PartialSetClauses, where \in PartialWhereClauses :
          LET target == TargetKeys(tables[t], where) IN
          (/\ Update(t, set, where)
           /\ Len(target) = 1
           /\ ~InvalidSet(tables[t], set))
              => /\ (/\ HeldBySelf(tables[t], target[1], set)
                     /\ ~HeldByOther(tables[t], target[1], set))
                       => /\ res'.status = "OK" /\ res'.count = 1
                          /\ HoldsNewValues(t, target[1], set)
                          /\ \A i \in 1..Len(set) :
                                (set[i][1] \in UniqueColumns(tables[t]) /\ set[i][2] # "None")
                                   => Index_search(DictVal(tables'[t].indexes, set[i][1]),
                                                   set[i][2]) = {int(target[1])}
                          /\ \A k \in RowKeys(tables[t]) \ {target[1]} : RowUntouched(t, k)
                 /\ HeldByOther(tables[t], target[1], set)
                       => /\ res'.status = "error" /\ res'.kind = "duplicate"
                          /\ tables' = tables
                          /\ data_files' = data_files]_vars

\* C29 witness: an UPDATE of the one row with id = 1 has just succeeded on a
\* table of two rows in which that row holds 'b' in the unique column and the
\* other row holds 'a'.
C29_Witness ==
    /\ res.op = "update" /\ res.status = "OK" /\ res.count = 1
    /\ "users" \in DOMAIN tables
    /\ RowKeys(tables["users"]) = {"1", "2"}
    /\ RowOf(tables["users"], "1") = [id |-> "None", email |-> "'a'"]
    /\ RowOf(tables["users"], "2") = [id |-> "1", email |-> "'b'"]
    /\ Index_search(DictVal(tables["users"].indexes, "email"), "'b'") = {2}

\* The pairs give null to some unique, non-primary column of the table
NullInUnique(table, pairs) ==
    \E i \in 1..Len(pairs) :
       /\ pairs[i][2] = "None"
       /\ \E j \in 1..Len(table.schema) :
             /\ table.schema[j].name = pairs[i][1]
             /\ table.schema[j].is_unique /\ ~table.schema[j].is_primary

\* No index of the table holds an entry for null: the lookup of null finds no
\* row-id, through Index.search and through a condition c = NULL
NullNotIndexed(table) ==
    \A c \in DictKeys(table.indexes) :
       /\ ~Index_has_value(DictVal(table.indexes, c), "None")
       /\ Index_search(DictVal(table.indexes, c), "None") = {}
       /\ index_lookup(table, table.data, Condition(c, "=", "None")) = <<>>

\* C30: an Insert of a whole row and an Update that give null to a unique,
\* non-primary column, and are valid otherwise (known columns, values of the
\* declared types, no non-null unique value held by another row), succeed
\* whatever the number of rows already holding null there: the Insert stores
\* the row, the Update gives null to every targeted row, no row-id of theirs
\* stays in that column's index; and in every table no index has an entry for
\* null, so a lookup for null returns no row-id.
C30_NullInUniqueColumn ==
    [][/\ \A t \in DOMAIN tables' : NullNotIndexed(tables'[t])
       /\ res'.op = "insert" =>
             \A t \in DOMAIN tables, q \in UpdateInsertStmts :
                LET pairs == SuppliedPairs(tables[t], q[1], q[2]) IN
                (/\ Insert(t, q[1], q[2])
                 /\ Len(q[2]) = Len(tables[t].schema)
                 /\ NullInUnique(tables[t], pairs)
                 /\ ~InvalidSet(tables[t], pairs)
                 /\ ~HeldByOther(tables[t], "0", pairs))
                    => /\ res'.status = "OK"
                       /\ \A i \in 1..Len(pairs) :
                             RowGet(RowOf(tables'[t], str(res'.row_id)), pairs[i][1])
                                = pairs[i][2]
                       /\ \A k \in RowKeys(tables[t]) : RowUntouched(t, k)
       /\ res'.op = "update" =>
             \A t \in DOMAIN tables, set \in UpdateSetClauses, where \in WhereClauses :
                (/\ Update(t, set, where)
                 /\ NullInUnique(tables[t], set)
                 /\ ~InvalidSet(tables[t], set)
                 /\ \A k \in Selected(tables[t], where) :
                       ~HeldByOther(tables[t], k, set))
                    => /\ res'.status = "OK"
                       /\ res'.count = Cardinality(Selected(tables[t], where))
                       /\ \A k \in Selected(tables[t], where), i \in 1..Len(set) :
                             /\ RowGet(RowOf(tables'[t], k), set[i][1]) = set[i][2]
                             /\ set[i][2] = "None" =>
                                   \A v \in Values :
                                      int(k) \notin
                                         Index_search(DictVal(tables'[t].indexes,
                                                              set[i][1]), v)]_vars

\* C30 witness: an UPDATE has just set two rows at once in a table whose
\* columns are both unique; both rows hold null in email and the email index
\* is empty.
C30_Witness ==
    /\ res.op = "update" /\ res.status = "OK" /\ res.count = 2
    /\ "users" \in DOMAIN tables
    /\ UniqueColumns(tables["users"]) = {"id", "email"}
    /\ Len(tables["users"].data) = 2
    /\ \A k \in RowKeys(tables["users"]) :
          RowGet(RowOf(tables["users"], k), "email") = "None"
    /\ DictVal(tables["users"].indexes, "email") = EmptyIndex

\* The right table with the same schema, rows and counter and no Index, so
\* that _execute_join takes its nested loop
WithoutIndexes(table) == [table EXCEPT !.indexes = <<>>]

\* The merged rows _execute_join returns for the left rows a condition list
\* selects in table T, named L, joined with right table R on left_col = right_col
JoinRows(L, T, where, R, right_table, left_col, right_col) ==
    Range(join_loop(L, apply_where_clause(tables[T], tables[T].data, where),
                    R, right_table,
                    [table |-> R, left_column |-> left_col,
                     right_column |-> right_col], 1))

\* C31: for the same left rows and the same right table contents, the join
\* through the Index of the right table's join column returns the same set of
\* merged rows as the nested loop over the right table's rows, right rows
\* whose join column is null included.
C31_IndexJoinEqualsNestedLoop ==
    \A T \in DOMAIN tables, R \in DOMAIN tables, L \in QueryTables :
       \A left_col \in JoinColumns, right_col \in JoinColumns, where \in WhereClauses :
          right_col \in DictKeys(tables[R].indexes)
             => JoinRows(L, T, where, R, tables[R], left_col, right_col)
                   = JoinRows(L, T, where, R, WithoutIndexes(tables[R]),
                              left_col, right_col)

\* C31 witness: the users table has both columns indexed, one row with id
\* True and a null email and one row with id null; joined with itself as the
\* right table on id (left rows named orders) through the index, the row with
\* id True is paired with itself and the row with the null id with nothing.
C31_Witness ==
    /\ "users" \in DOMAIN tables
    /\ DictKeys(tables["users"].indexes) = {"id", "email"}
    /\ Len(tables["users"].data) = 2
    /\ \E k \in RowKeys(tables["users"]) :
          RowOf(tables["users"], k) = [id |-> "True", email |-> "None"]
    /\ \E k \in RowKeys(tables["users"]) :
          RowGet(RowOf(tables["users"], k), "id") = "None"
    /\ Cardinality(JoinRows("orders", "users", <<>>, "users", tables["users"],
                            "id", "id")) = 1

\* C32: no statement ends in the branch taken when an Index insert or update
\* reports a duplicate after the constraint check has passed: neither the
\* rollback of Insert nor the index failure inside Update's loop ("Unique
\* constraint violation") is ever the outcome of a statement.
C32_IndexNeverRejects ==
    res.kind # "unique_violation"

\* C32 witness: the constraint check has passed for the second of two rows
\* with different non-null values in both unique columns, and both indexes
\* took the new entries.
C32_Witness ==
    /\ res.op = "insert" /\ res.status = "OK" /\ res.row_id = 2
    /\ "users" \in DOMAIN tables
    /\ UniqueColumns(tables["users"]) = {"id", "email"}
    /\ \A c \in {"id", "email"} :
          RowGet(RowOf(tables["users"], "2"), c) # "None"
    /\ Index_search(DictVal(tables["users"].indexes, "email"),
                    RowGet(RowOf(tables["users"], "2"), "email")) = {2}
    /\ Cardinality(DOMAIN DictVal(tables["users"].indexes, "email")) = 2

\* C33: in every table the column names are pairwise distinct.
C33_DistinctColumnNames ==
    \A t \in DOMAIN tables :
       \A i \in 1..Len(tables[t].schema), j \in 1..Len(tables[t].schema) :
          i # j => tables[t].schema[i].name # tables[t].schema[j].name

\* C34: a Select, with or without WHERE and JOIN, whether it succeeds or
\* fails, leaves every table (schema, row store, indexes, next_row_id) and
\* every persisted file unchanged.
C34_SelectChangesNothing ==
    [][res'.op = "select"
          => /\ tables' = tables
             /\ schema_files' = schema_files
             /\ data_files' = data_files]_vars

\* C34 witness: a SELECT has just returned rows of a table whose rows in
\* memory differ from its snapshot (an UPDATE failed partway before), and
\* the snapshot still differs.
C34_Witness ==
    /\ res.op = "select" /\ res.status = "OK"
    /\ "users" \in DOMAIN tables
    /\ Len(out.rows) >= 1
    /\ tables["users"].data # data_files["users"]

\* The row-ids of the rows a table once held and holds no more
DeletedIds(t) ==
    {i \in Range(lifetime[t]) : str(i) \notin RowKeys(tables[t])}

\* C35: an Insert that is valid otherwise (arity, known columns, values of the
\* declared types) and gives the unique columns only values that no row holds
\* now, whether or not a deleted row or an updated row held them before,
\* succeeds and receives a row-id that no deleted row had.
C35_ValueFreedForReuse ==
    [][res'.op = "insert" =>
       \A t \in DOMAIN tables, q \in InsertStmts :
          LET pairs == SuppliedPairs(tables[t], q[1], q[2]) IN
          (/\ Insert(t, q[1], q[2])
           /\ Len(q[2]) = (IF q[1] # <<>> THEN Len(q[1])
                           ELSE Len(tables[t].schema))
           /\ ~InvalidSet(tables[t], pairs)
           /\ ~HeldByOther(tables[t], "0", pairs))
              => /\ res'.status = "OK"
                 /\ res'.row_id \notin DeletedIds(t)]_vars

\* Another row-id than row_id holds the value in the index
HeldByOtherId(idx, value, row_id) ==
    /\ value # "None"
    /\ PyKey(value) \in DOMAIN idx
    /\ idx[PyKey(value)] \ {row_id} # {}

\* C36: on a unique Index in which the value new is held by another row-id,
\* update(old, new, row_id) returns failure and leaves the index as it was
\* except that row_id is no longer found under old (the delete is not
\* undone), and insert(new, row_id) returns failure and leaves the index
\* unchanged.
C36_IndexUpdateNotAtomic ==
    [][\A t \in DOMAIN tables, new_value \in Values, row_id \in 1..MaxRowId :
          HeldByOtherId(IndexOf(t), new_value, row_id) =>
             /\ (res'.op = "index_insert" /\ IndexInsert(t, new_value, row_id))
                   => /\ res'.status = "error"
                      /\ tables' = tables
             /\ res'.op = "index_update" =>
                   \A old_value \in Values :
                      IndexUpdate(t, old_value, new_value, row_id)
                         => /\ res'.status = "error"
                            /\ \A v \in Values :
                                  Index_search(DictVal(tables'[t].indexes, IndexColumn), v)
                                     = IF PyEq(v, old_value)
                                       THEN Index_search(IndexOf(t), v) \ {row_id}
                                       ELSE Index_search(IndexOf(t), v)
                            /\ ~Index_has_value(DictVal(tables'[t].indexes, IndexColumn),
                                                old_value)
                                  \/ Index_search(IndexOf(t), old_value) \ {row_id} # {}]_vars

\* C36 witness: update(old, new, 1) has just failed on an index that holds a
\* single value, under row-id 2: whatever row-id 1 held is gone.
C36_Witness ==
    /\ res.op = "index_update" /\ res.status = "error" /\ res.row_id = 1
    /\ "users" \in DOMAIN tables
    /\ Cardinality(DOMAIN IndexOf("users")) = 1
    /\ \A k \in DOMAIN IndexOf("users") : IndexOf("users")[k] = {2}

====
